---- MODULE Spec2Model ----
(***************************************************************************)
(* Model of the quotation item parser, src/scripts/parse_quotation_items.py *)
(*                                                                         *)
(* Text is a sequence of characters; a character is a one-letter string.   *)
(* The three non-ASCII characters the parser looks for are written as the  *)
(* atoms Peso (U+20B1), EnDash (U+2013) and Times (U+00D7).                *)
(* Several state machines share the module:                                *)
(*   Spec         parse_item_section + extract_quotation_items, one line   *)
(*                of the job section per step;                             *)
(*   SpecPricing  parse_pricing_from_line applied to one fragment;         *)
(*   SpecTree     the same on sections with priced items at every depth;   *)
(*   SpecNotes    the same on sections with currency lines under items;    *)
(*   SpecLabels   the same on one line of every shape of label;            *)
(*   SpecDeep     the same on longer sections of plain items;              *)
(*   SpecSection  the same from the whole text on: the section is cut out  *)
(*                between the start marker and the earliest end marker;    *)
(*   SpecRepeat   several calls of parse_item_section, one after another;  *)
(*   SpecService  one request to the formatting service, src/service/main.py *)
(*   SpecPrice    one call of format_price, src/service/format_rules.py;   *)
(*   SpecBatch    analyze_files over the loaded documents;                 *)
(*   SpecLine     detect_item_line / extract_number_and_text /             *)
(*                determine_hierarchy_level applied to one line or label.  *)
(***************************************************************************)
EXTENDS Integers, Sequences, FiniteSets, TLC

VARIABLES
    lines,          \* parse_item_section: job_section.split('\n')
    idx,            \* position of the `for line in lines` loop
    items,          \* parse_item_section: items (the top-level list)
    current_item,   \* parse_item_section: current_item (a reference)
    prev_level,     \* parse_item_section: prev_level
    item_stack,     \* parse_item_section: item_stack (owners of the lists)
    pc,             \* where the call is: "loop", "returned", "summarized", "raised"
    result,         \* the value returned by extract_quotation_items
    fragment,       \* parse_pricing_from_line: its argument text
    pricing_out,    \* parse_pricing_from_line: its outcome
    line_in,        \* the argument of a line classifier call
    line_out,       \* what the line classifier call returned
    extracted_text,     \* parse_item_section: its argument, text
    history,        \* the <<text, tree>> pairs of the calls that have returned
    request,        \* service: the JSON body posted to an endpoint
    response,       \* service: the HTTP response
    libraries,      \* service: the optional libraries whose import succeeded
    amount,         \* format_price: its argument
    price_out,      \* format_price: the string it returned
    files_data,     \* analyze_files: its argument, the loaded documents
    file_pos,       \* analyze_files: position of the `for file_info` loop
    item_structures \* analyze_files: item_structures

\* the variables the parser's loop and parse_pricing_from_line never touch
\* the variables of the service's libraries, of format_price and of the batch
extraVars == <<libraries, amount, price_out, files_data, file_pos, item_structures>>

restVars == <<line_in, line_out, extracted_text, history, request, response,
              extraVars>>

\* the variables of the parser's calls, pc apart
parserVars == <<lines, idx, items, current_item, prev_level, item_stack, result,
                fragment, pricing_out>>

vars == <<lines, idx, items, current_item, prev_level, item_stack, pc, result,
          fragment, pricing_out, restVars>>

-----------------------------------------------------------------------------
(* Characters *)

Peso == "PESO"
EnDash == "ENDASH"
Times == "TIMES"

DigitChars == <<"0", "1", "2", "3", "4", "5", "6", "7", "8", "9">>
UpperChars == <<"A", "B", "C", "D", "E", "F", "G", "H", "I", "J", "K", "L", "M",
                "N", "O", "P", "Q", "R", "S", "T", "U", "V", "W", "X", "Y", "Z">>
LowerChars == <<"a", "b", "c", "d", "e", "f", "g", "h", "i", "j", "k", "l", "m",
                "n", "o", "p", "q", "r", "s", "t", "u", "v", "w", "x", "y", "z">>

Range(f) == {f[i] : i \in DOMAIN f}
Min(S) == CHOOSE m \in S : \A n \in S : m <= n

\* \d
Digit == Range(DigitChars)
\* [a-z]
Letter == Range(LowerChars)
\* [ivxlcdm]
Roman == {"i", "v", "x", "l", "c", "d", "m"}
\* [–=]
Sep == {EnDash, "="}
\* [\d,]
AmountChar == Digit \cup {","}
\* the line separator of str.split('\n')
Newline == "\n"
\* \s, and what str.strip() strips
IsSpace(c) == c \in {" ", Newline}

\* str.lower() on one character; what re.IGNORECASE compares
LowerChar(c) ==
    IF \E i \in DOMAIN UpperChars : UpperChars[i] = c
    THEN LowerChars[CHOOSE i \in DOMAIN UpperChars : UpperChars[i] = c]
    ELSE c

lower(s) == [i \in DOMAIN s |-> LowerChar(s[i])]

\* the character at position i, or an atom no pattern matches past the end
At(s, i) == IF i \in 1..Len(s) THEN s[i] ELSE "EOF"

\* \s* from position i: the position after the whitespace run
RECURSIVE SkipWs(_, _)
SkipWs(s, i) == IF i <= Len(s) /\ IsSpace(s[i]) THEN SkipWs(s, i + 1) ELSE i

\* [C]* from position i (greedy): the position after the run
RECURSIVE RunEnd(_, _, _)
RunEnd(s, i, C) == IF i <= Len(s) /\ s[i] \in C THEN RunEnd(s, i + 1, C) ELSE i

\* the same under re.IGNORECASE
RECURSIVE RunEndCI(_, _, _)
RunEndCI(s, i, C) ==
    IF i <= Len(s) /\ LowerChar(s[i]) \in C THEN RunEndCI(s, i + 1, C) ELSE i

\* s[i:j] (1-based, j exclusive)
Slice(s, i, j) == SubSeq(s, i, j - 1)

\* literal w at position i, case-sensitive / case-insensitive
LitAt(s, i, w) ==
    /\ i >= 1
    /\ i + Len(w) - 1 <= Len(s)
    /\ \A k \in 1..Len(w) : s[i + k - 1] = w[k]
LitAtCI(s, i, w) ==
    /\ i >= 1
    /\ i + Len(w) - 1 <= Len(s)
    /\ \A k \in 1..Len(w) : LowerChar(s[i + k - 1]) = LowerChar(w[k])

\* `w in s`
Contains(s, w) == \E i \in 1..Len(s) : LitAt(s, i, w)
ContainsCI(s, w) == \E i \in 1..Len(s) : LitAtCI(s, i, w)

\* str.strip()
RECURSIVE RStripEnd(_, _)
RStripEnd(s, j) == IF j >= 1 /\ IsSpace(s[j]) THEN RStripEnd(s, j - 1) ELSE j
strip(s) == SubSeq(s, SkipWs(s, 1), RStripEnd(s, Len(s)))

\* the texts of a sequence put one after the other
RECURSIVE Concat(_)
Concat(ss) == IF ss = <<>> THEN <<>> ELSE Head(ss) \o Concat(Tail(ss))

-----------------------------------------------------------------------------
(* parse_pricing_from_line *)

PlusMarker == <<"P", "l", "u", "s", ":">>
AdditionalMarker == <<"A", "d", "d", "i", "t", "i", "o", "n", "a", "l", ":">>
UnitMarker == <<"/", "u", "n", "i", "t">>
Installation == <<"I", "n", "s", "t", "a", "l", "l", "a", "t", "i", "o", "n">>

\* Mutant of StripCommas: the digits are cut at the first comma
StripCommas_cut(d) ==
    LET C == {i \in DOMAIN d : d[i] = ","}
    IN  IF C = {} THEN d ELSE SubSeq(d, 1, Min(C) - 1)

\* str.replace(',', '')
StripCommas(d) == SelectSeq(d, LAMBDA c : c # ",")

DigitVal(c) == (CHOOSE i \in DOMAIN DigitChars : DigitChars[i] = c) - 1

\* int(d) for a string of digits; int('') raises ValueError
RECURSIVE DigitsValue(_)
DigitsValue(d) ==
    IF d = <<>> THEN 0
    ELSE DigitsValue(SubSeq(d, 1, Len(d) - 1)) * 10 + DigitVal(d[Len(d)])
IntRaises(g) == StripCommas(g) = <<>>
IntOf(g) == DigitsValue(StripCommas(g))

\* a span is <<first, end>>; what a pattern returns when it does not match
NoMatch == <<0, 0>>
NoLabelMatch == <<0, 0, NoMatch>>
NoUnitMatch == <<NoMatch, NoMatch>>

\* [–=]\s*₱\s*([\d,]+) anchored at i: the span of the group, or NoMatch
AmountAt(s, i) ==
    LET j == SkipWs(s, i + 1)
        k == SkipWs(s, j + 1)
        e == RunEnd(s, k, AmountChar)
    IN  IF At(s, i) \in Sep /\ At(s, j) = Peso /\ e > k THEN <<k, e>> ELSE NoMatch

\* re.search(r'(Plus:|Additional:)', text, re.IGNORECASE)
HasMarker(s) == ContainsCI(s, PlusMarker) \/ ContainsCI(s, AdditionalMarker)

\* (Plus:|Additional:)?\s*([^–=₱]*?)\s*[–=]\s*₱\s*([\d,]+) anchored at p,
\* case-sensitive: [body start, separator position, amount span], or NoMatch.
\* The optional marker is taken when it is there; the lazy label stops at
\* the first separator, which must open an amount.
LabelAt(s, p) ==
    LET b == IF LitAt(s, p, PlusMarker) THEN p + Len(PlusMarker)
             ELSE IF LitAt(s, p, AdditionalMarker) THEN p + Len(AdditionalMarker)
             ELSE p
        q == RunEnd(s, b, Range(s) \ (Sep \cup {Peso}))
    IN  IF AmountAt(s, q) # NoMatch THEN <<b, q, AmountAt(s, q)>> ELSE NoLabelMatch

\* re.search of the label pattern: the leftmost anchor that matches
label_match(s) ==
    LET P == {p \in 1..Len(s) : LabelAt(s, p) # NoLabelMatch}
    IN  IF P = {} THEN NoLabelMatch ELSE LabelAt(s, Min(P))

\* ₱\s*([\d,]+)\s*/unit\s*[–=]\s*₱\s*([\d,]+) anchored at i:
\* the spans of the two groups, or NoMatch
UnitAt(s, i) ==
    LET k == SkipWs(s, i + 1)
        e == RunEnd(s, k, AmountChar)
        m == SkipWs(s, e)
        n == SkipWs(s, m + Len(UnitMarker))
    IN  IF /\ At(s, i) = Peso
           /\ e > k
           /\ LitAt(s, m, UnitMarker)
           /\ AmountAt(s, n) # NoMatch
        THEN <<<<k, e>>, AmountAt(s, n)>>
        ELSE NoUnitMatch

unit_match(s) ==
    LET P == {p \in 1..Len(s) : UnitAt(s, p) # NoUnitMatch}
    IN  IF P = {} THEN NoUnitMatch ELSE UnitAt(s, Min(P))

lump_match(s) ==
    LET P == {p \in 1..Len(s) : AmountAt(s, p) # NoMatch}
    IN  IF P = {} THEN NoMatch ELSE AmountAt(s, Min(P))

Group(s, span) == Slice(s, span[1], span[2])

ValueError == [exception |-> "ValueError"]
Raised(r) == "exception" \in DOMAIN r

\* Mutant of AdditivePricing: the default label is set although nothing matched
AdditivePricing_defaultLabel(text) ==
    LET lm == label_match(text)
        label == strip(Slice(text, lm[1], lm[2]))
    IN  IF lm = NoLabelMatch
        THEN [format |-> "additive", raw |-> text, label |-> Installation]
        ELSE IF IntRaises(Group(text, lm[3])) THEN ValueError
        ELSE [format |-> "additive", raw |-> text,
              label |-> IF label = <<>> THEN Installation ELSE label,
              amount |-> IntOf(Group(text, lm[3]))]

\* the additive branch, lines 130-137
AdditivePricing(text) ==
    LET lm == label_match(text)
        label == strip(Slice(text, lm[1], lm[2]))
    IN  IF lm = NoLabelMatch THEN [format |-> "additive", raw |-> text]
        ELSE IF IntRaises(Group(text, lm[3])) THEN ValueError
        ELSE [format |-> "additive", raw |-> text,
              label |-> IF label = <<>> THEN Installation ELSE label,
              amount |-> IntOf(Group(text, lm[3]))]

\* the unit-based branch, lines 140-145
UnitPricing(text) ==
    LET um == unit_match(text)
    IN  IF IntRaises(Group(text, um[1])) \/ IntRaises(Group(text, um[2]))
        THEN ValueError
        ELSE [format |-> "unit-based", raw |-> text,
              unit_price |-> IntOf(Group(text, um[1])),
              total |-> IntOf(Group(text, um[2]))]

\* the lump-sum branch, lines 148-152
LumpPricing(text) ==
    LET g == Group(text, lump_match(text))
    IN  IF IntRaises(g) THEN ValueError
        ELSE [format |-> "lump-sum", raw |-> text, amount |-> IntOf(g)]

\* re.search(r'₱\s*([\d,]+)', text): the span of the group, or NoMatch
CurrencyAt(s, i) ==
    LET k == SkipWs(s, i + 1)
        e == RunEnd(s, k, AmountChar)
    IN  IF At(s, i) = Peso /\ e > k THEN <<k, e>> ELSE NoMatch

calc_match(s) ==
    LET P == {p \in 1..Len(s) : CurrencyAt(s, p) # NoMatch}
    IN  IF P = {} THEN NoMatch ELSE CurrencyAt(s, Min(P))

\* The calculation branch, lines 155-161: its guard is the pattern of
\* lump_match, tested again after the lump-sum branch has returned.
CalcPricing(text) ==
    IF lump_match(text) = NoMatch THEN [format |-> "null", raw |-> text]
    ELSE IF calc_match(text) = NoMatch THEN [format |-> "calculation", raw |-> text]
    ELSE IF IntRaises(Group(text, calc_match(text))) THEN ValueError
    ELSE [format |-> "calculation", raw |-> text,
          amount |-> IntOf(Group(text, calc_match(text)))]

\* Mutant of parse_pricing_from_line: the calculation test comes before the
\* lump-sum test
parse_pricing_from_line_calcFirst(text) ==
    IF HasMarker(text) THEN AdditivePricing(text)
    ELSE IF unit_match(text) # NoUnitMatch THEN UnitPricing(text)
    ELSE CalcPricing(text)

\* Mutant of parse_pricing_from_line: the unit-based test comes first
parse_pricing_from_line_unitFirst(text) ==
    IF unit_match(text) # NoUnitMatch THEN UnitPricing(text)
    ELSE IF HasMarker(text) THEN AdditivePricing(text)
    ELSE IF lump_match(text) # NoMatch THEN LumpPricing(text)
    ELSE CalcPricing(text)

\* text_clean (line 127) is computed and never read.
parse_pricing_from_line(text) ==
    IF HasMarker(text) THEN AdditivePricing(text)
    ELSE IF unit_match(text) # NoUnitMatch THEN UnitPricing(text)
    ELSE IF lump_match(text) # NoMatch THEN LumpPricing(text)
    ELSE CalcPricing(text)

-----------------------------------------------------------------------------
(* detect_item_line, extract_number_and_text, determine_hierarchy_level *)

Closer == {".", ")"}

\* The six numbering grammars, anchored at the start of s, under
\* re.IGNORECASE: <<label first, label end, position after the prefix>>,
\* or NoPrefix. These are the six patterns of extract_number_and_text.
NoPrefix == <<0, 0, 0>>
PrefixOf(s, n) ==
    LET d1 == RunEnd(s, 1, Digit)
        d2 == RunEnd(s, 2, Digit)
        r1 == RunEndCI(s, 1, Roman)
        r2 == RunEndCI(s, 2, Roman)
    IN  CASE n = 1 -> IF d1 > 1 /\ At(s, d1) \in Closer
                      THEN <<1, d1, d1 + 1>> ELSE NoPrefix
          [] n = 2 -> IF At(s, 1) = "(" /\ d2 > 2 /\ At(s, d2) = ")"
                      THEN <<2, d2, d2 + 1>> ELSE NoPrefix
          [] n = 3 -> IF LowerChar(At(s, 1)) \in Letter /\ At(s, 2) \in Closer
                      THEN <<1, 2, 3>> ELSE NoPrefix
          [] n = 4 -> IF At(s, 1) = "(" /\ LowerChar(At(s, 2)) \in Letter /\ At(s, 3) = ")"
                      THEN <<2, 3, 4>> ELSE NoPrefix
          [] n = 5 -> IF r1 > 1 /\ At(s, r1) \in Closer
                      THEN <<1, r1, r1 + 1>> ELSE NoPrefix
          [] n = 6 -> IF At(s, 1) = "(" /\ r2 > 2 /\ At(s, r2) = ")"
                      THEN <<2, r2, r2 + 1>> ELSE NoPrefix

NumPatterns == 6

\* The six patterns of detect_item_line (lines 31-38): re.match(pattern, s,
\* re.IGNORECASE) for the n-th of them.
DetectPattern(s, n) ==
    CASE n = 1 -> RunEnd(s, 1, Digit) > 1 /\ At(s, RunEnd(s, 1, Digit)) \in Closer
      [] n = 2 -> At(s, 1) = "(" /\ RunEnd(s, 2, Digit) > 2
                  /\ At(s, RunEnd(s, 2, Digit)) = ")"
      [] n = 3 -> LowerChar(At(s, 1)) \in Letter /\ At(s, 2) \in Closer
      [] n = 4 -> At(s, 1) = "(" /\ LowerChar(At(s, 2)) \in Letter /\ At(s, 3) = ")"
      [] n = 5 -> RunEndCI(s, 1, Roman) > 1 /\ At(s, RunEndCI(s, 1, Roman)) \in Closer
      [] n = 6 -> At(s, 1) = "(" /\ RunEndCI(s, 2, Roman) > 2
                  /\ At(s, RunEndCI(s, 2, Roman)) = ")"

\* detect_item_line without its two roman patterns
detect_item_line_noRoman(line0) ==
    LET line == strip(line0)
    IN  /\ line # <<>>
        /\ \E n \in 1..4 : DetectPattern(line, n)

detect_item_line(line0) ==
    LET line == strip(line0)
    IN  /\ line # <<>>
        /\ \E n \in 1..NumPatterns : DetectPattern(line, n)

\* extract_number_and_text without its two roman patterns
extract_number_and_text_noRoman(line0) ==
    LET line == strip(line0)
        N == {n \in 1..4 : PrefixOf(line, n) # NoPrefix}
        m == PrefixOf(line, Min(N))
    IN  IF N = {} THEN <<<<>>, line>>
        ELSE <<Slice(line, m[1], m[2]),
               Slice(line, SkipWs(line, m[3]), Len(line) + 1)>>

\* <<number_str, remaining_text>>; the first grammar that matches decides
extract_number_and_text(line0) ==
    LET line == strip(line0)
        N == {n \in 1..NumPatterns : PrefixOf(line, n) # NoPrefix}
        m == PrefixOf(line, Min(N))
    IN  IF N = {} THEN <<<<>>, line>>
        ELSE <<Slice(line, m[1], m[2]),
               Slice(line, SkipWs(line, m[3]), Len(line) + 1)>>

\* determine_hierarchy_level testing for a roman run before the length
determine_hierarchy_level_romanFirst(number_str0) ==
    LET number_str == strip(lower(number_str0))
    IN  IF number_str = <<>> THEN 0
        ELSE IF \A i \in DOMAIN number_str : number_str[i] \in Digit THEN 1
        ELSE IF \A i \in DOMAIN number_str : number_str[i] \in Roman THEN 3
        ELSE IF Len(number_str) = 1 /\ number_str[1] \in Letter THEN 2
        ELSE 0

determine_hierarchy_level(number_str0) ==
    LET number_str == strip(lower(number_str0))
    IN  IF number_str = <<>> THEN 0
        ELSE IF \A i \in DOMAIN number_str : number_str[i] \in Digit THEN 1
        ELSE IF Len(number_str) > 1 /\ \A i \in DOMAIN number_str : number_str[i] \in Roman
             THEN 3
        ELSE IF Len(number_str) = 1 /\ number_str[1] \in Letter THEN 2
        ELSE 0

-----------------------------------------------------------------------------
(* parse_item_section: the item dictionaries and the tree *)

\* Python's None; a dictionary is a record, {} the empty one
None == [none |-> TRUE]
EmptyDict == <<>>
\* the outcome of a call that has not been made yet
Pending == [pending |-> TRUE]

\* no library is loaded, no price has been formatted, no batch is running
ExtraIdle ==
    /\ libraries = {}
    /\ amount = Pending
    /\ price_out = Pending
    /\ files_data = <<>>
    /\ file_pos = 1
    /\ item_structures = <<>>

\* nothing has been passed to the line classifiers, to parse_item_section as
\* a whole, or to the service
RestIdle ==
    /\ line_in = <<>>
    /\ line_out = Pending
    /\ extracted_text = <<>>
    /\ history = <<>>
    /\ request = Pending
    /\ response = Pending
    /\ ExtraIdle

HasKey(d, k) == k \in DOMAIN d
SetKey(d, k, v) == [x \in DOMAIN d \cup {k} |-> IF x = k THEN v ELSE d[x]]
DelKey(d, k) == [x \in DOMAIN d \ {k} |-> d[x]]

\* [\d,/()ft\s×-] under re.IGNORECASE
PricingTailChar == Digit \cup {",", "/", "(", ")", "f", "t", " ", Times, "-"}

\* \s*[–=]\s*₱[\d,/()ft\s×-]* anchored at i: the position after the match, or 0
PricingTextAt(s, i) ==
    LET j == SkipWs(s, i)
        k == SkipWs(s, j + 1)
    IN  IF At(s, j) \in Sep /\ At(s, k) = Peso
        THEN RunEndCI(s, k + 1, PricingTailChar)
        ELSE 0

\* re.sub(pattern, '', text): every leftmost non-overlapping match removed
RECURSIVE RemovePricingFrom(_, _)
RemovePricingFrom(s, i) ==
    IF i > Len(s) THEN <<>>
    ELSE IF PricingTextAt(s, i) # 0 THEN RemovePricingFrom(s, PricingTextAt(s, i))
    ELSE <<s[i]>> \o RemovePricingFrom(s, i + 1)

\* lines 221-226
remove_pricing(text) == strip(RemovePricingFrom(text, 1))

\* line 218
HasCurrencyMarker(text) ==
    \E i \in DOMAIN text : text[i] \in {EnDash, "=", Peso}

\* lines 209-215
NewItem(number_str, text, level) ==
    [number |-> number_str, description |-> text, level |-> level,
     pricing |-> None, children |-> <<>>]

\* Mutant of AppendTop: the item goes to the front of the list
AppendTop_front(its, item) == <<item>> \o its

\* items.append(current_item)
AppendTop(its, item) == Append(its, item)

\* items[-1]["children"].append(current_item)
AppendChild(its, item) ==
    [its EXCEPT ![Len(its)].children = Append(@, item)]

\* Mutant of AppendGrandchild: the item goes one level too high
AppendGrandchild_asChild(its, item) ==
    [its EXCEPT ![Len(its)].children = Append(@, item)]

\* Mutant of AppendGrandchild: the item goes under the last grandchild
AppendGrandchild_deeper(its, item) ==
    LET n == Len(its)
        m == Len(its[n].children)
        g == Len(its[n].children[m].children)
    IN  IF g = 0 THEN [its EXCEPT ![n].children[m].children = Append(@, item)]
        ELSE [its EXCEPT ![n].children[m].children[g].children = Append(@, item)]

\* items[-1]["children"][-1]["children"].append(current_item)
AppendGrandchild(its, item) ==
    LET n == Len(its)
        m == Len(its[n].children)
    IN  [its EXCEPT ![n].children[m].children = Append(@, item)]

\* the item a path of list positions leads to
ItemAt(its, path) ==
    IF Len(path) = 1 THEN its[path[1]]
    ELSE IF Len(path) = 2 THEN its[path[1]].children[path[2]]
    ELSE its[path[1]].children[path[2]].children[path[3]]

\* the tree with the item at path replaced
ReplaceAt(its, path, item) ==
    IF Len(path) = 1 THEN [its EXCEPT ![path[1]] = item]
    ELSE IF Len(path) = 2 THEN [its EXCEPT ![path[1]].children[path[2]] = item]
    ELSE [its EXCEPT ![path[1]].children[path[2]].children[path[3]] = item]

\* current_item is a reference: to an item of the tree (its path), or to an
\* item that was created and put in no list
NoCurrent == [kind |-> "none", path |-> <<>>, item |-> None]
Attached(path) == [kind |-> "attached", path |-> path, item |-> None]
Detached(item) == [kind |-> "detached", path |-> <<>>, item |-> item]

Deref(its, cur) == IF cur.kind = "attached" THEN ItemAt(its, cur.path) ELSE cur.item

\* Mutant of clean_items: the children of an item are not cleaned
clean_items_shallow(item_list) ==
    [i \in DOMAIN item_list |->
        IF item_list[i].children # <<>>
        THEN item_list[i]
        ELSE DelKey(item_list[i], "children")]

\* clean_items, lines 273-278
RECURSIVE clean_items(_)
clean_items(item_list) ==
    [i \in DOMAIN item_list |->
        IF item_list[i].children # <<>>
        THEN [item_list[i] EXCEPT !.children = clean_items(@)]
        ELSE DelKey(item_list[i], "children")]

-----------------------------------------------------------------------------
(* extract_quotation_items: the summary of a returned tree *)

Max(a, b) == IF a >= b THEN a ELSE b

HasChildren(item) == HasKey(item, "children") /\ item.children # <<>>

\* get_max_depth reporting the largest level field of the list
get_max_depth_levelField(item_list, current_depth) ==
    LET L == {item_list[i].level : i \in DOMAIN item_list}
    IN  IF item_list = <<>> THEN current_depth
        ELSE CHOOSE m \in L : \A n \in L : m >= n

\* get_max_depth, lines 301-308
RECURSIVE get_max_depth(_, _)
RECURSIVE MaxOverChildren(_, _, _)
MaxOverChildren(item_list, i, current_depth) ==
    IF i > Len(item_list) THEN current_depth
    ELSE Max(IF HasChildren(item_list[i])
             THEN get_max_depth(item_list[i].children, current_depth + 1)
             ELSE current_depth,
             MaxOverChildren(item_list, i + 1, current_depth))
get_max_depth(item_list, current_depth) ==
    IF item_list = <<>> THEN current_depth
    ELSE MaxOverChildren(item_list, 1, current_depth)

\* item.get("pricing") and item["pricing"].get("format"): both truthy
HasFormat(item) ==
    /\ item.pricing # None
    /\ item.pricing # EmptyDict
    /\ HasKey(item.pricing, "format")
    /\ item.pricing.format # "null"

\* collect_patterns without the descent into children
collect_patterns_topOnly(item_list) ==
    UNION {(IF HasFormat(item_list[i]) THEN {item_list[i].pricing.format} ELSE {})
           : i \in DOMAIN item_list}

\* collect_patterns, lines 315-320: the set it fills
RECURSIVE collect_patterns(_)
collect_patterns(item_list) ==
    UNION {(IF HasFormat(item_list[i]) THEN {item_list[i].pricing.format} ELSE {})
           \cup (IF HasChildren(item_list[i])
                 THEN collect_patterns(item_list[i].children) ELSE {})
           : i \in DOMAIN item_list}

\* sorted(list(pricing_patterns)): the format names in string order
FormatOrder == <<"additive", "calculation", "lump-sum", "unit-based">>
sorted(S) == SelectSeq(FormatOrder, LAMBDA f : f \in S)

location_keywords == {
    <<"f", "l", "o", "o", "r">>, <<"r", "o", "o", "m">>, <<"d", "e", "p", "t">>,
    <<"o", "f", "f", "i", "c", "e">>, <<"a", "r", "e", "a">>,
    <<"s", "e", "c", "t", "i", "o", "n">> }

\* has_location_grouping looking at the items of every depth
RECURSIVE has_location_grouping_anyDepth(_)
has_location_grouping_anyDepth(its) ==
    \E i \in DOMAIN its :
        \/ \E kw \in location_keywords : Contains(lower(its[i].description), kw)
        \/ HasChildren(its[i]) /\ has_location_grouping_anyDepth(its[i].children)

\* lines 325-331
has_location_grouping(its) ==
    \E i \in DOMAIN its : \E kw \in location_keywords :
        Contains(lower(its[i].description), kw)

\* lines 333-340 (filename is passed through and not modelled)
Summary(its) ==
    [item_count |-> Len(its),
     hierarchy_depth |-> IF its # <<>> THEN get_max_depth(its, 1) ELSE 0,
     has_location_grouping |-> has_location_grouping(its),
     pricing_patterns |-> sorted(collect_patterns(its))]

-----------------------------------------------------------------------------
(* Spec: parse_item_section on a job section, then the summary *)

\* Bound: the job section has at most MaxLines lines.
MaxLines == 3

TotalPrice == <<"T", "o", "t", "a", "l", " ", "P", "r", "i", "c", "e">>

LineSet == {
    <<"1", ".", " ", "x">>,
    <<"a", ".", " ", "y">>,
    <<"i", "i", ".", " ", "z">>,
    <<"I", "V", ")", "v">>,
    <<"b", ")", " ", "y", " ", EnDash, " ", Peso, ",">>,
    <<"(", "2", ")", " ", "R", "o", "o", "m", "=", Peso, "7", " ", "k">>,
    <<"w">>,
    <<>>,
    <<" ">> \o PlusMarker \o <<" ", EnDash, " ", Peso, "5">>,
    TotalPrice \o <<" ", Peso, "9">>,
    <<Peso, "3", " ", "k">> }

\* job_section.strip().split('\n'): a single empty line, or lines of which
\* the first has no leading and the last no trailing whitespace
SectionLines(ls) ==
    \/ ls = << <<>> >>
    \/ /\ ls # <<>>
       /\ ls[1] # <<>> /\ ~IsSpace(ls[1][1])
       /\ ls[Len(ls)] # <<>> /\ ~IsSpace(ls[Len(ls)][Len(ls[Len(ls)])])

Init ==
    /\ lines \in {ls \in UNION {[1..n -> LineSet] : n \in 1..MaxLines} : SectionLines(ls)}
    /\ idx = 1
    /\ items = <<>>
    /\ current_item = NoCurrent
    /\ prev_level = 0
    /\ item_stack = << <<>> >>
    /\ pc = "loop"
    /\ result = None
    /\ fragment = <<>>
    /\ pricing_out = Pending
    /\ RestIdle

Looping == pc = "loop" /\ idx <= Len(lines)

\* lines 200-202
BlankLine ==
    /\ Looping
    /\ strip(lines[idx]) = <<>>
    /\ idx' = idx + 1
    /\ UNCHANGED <<lines, items, current_item, prev_level, item_stack, pc,
                   result, fragment, pricing_out>>
    /\ UNCHANGED restVars

\* lines 228-244: where the new item goes.
\* <<items, current_item, item_stack, prev_level>> after the placement.
Place(its, stack, prev, item) ==
    LET level == item.level
        n == Len(its)
    IN  IF level = 1
        THEN <<AppendTop(its, item), Attached(<<n + 1>>),
               << <<>>, <<n + 1>> >>, 1>>
        ELSE IF level = 2 /\ prev >= 1
        THEN \* item_stack[-1] is a list, never None: the test always passes
             <<AppendChild(its, item),
               Attached(<<n, Len(its[n].children) + 1>>),
               Append(stack, <<n, Len(its[n].children) + 1>>), 2>>
        ELSE IF level = 3 /\ prev >= 2
        THEN IF its # <<>> /\ its[n].children # <<>>
             THEN <<AppendGrandchild(its, item),
                    Attached(<<n, Len(its[n].children),
                               Len(its[n].children[Len(its[n].children)].children) + 1>>),
                    stack, 3>>
             ELSE <<its, Detached(item), stack, 3>>
        ELSE <<AppendTop(its, item), Attached(<<n + 1>>), stack, level>>

\* items[-1] of an empty list raises IndexError
PlaceRaises(its, prev, level) == level = 2 /\ prev >= 1 /\ its = <<>>

\* lines 205-244
ItemLine ==
    /\ Looping
    /\ strip(lines[idx]) # <<>>
    /\ detect_item_line(strip(lines[idx]))
    /\ LET line == strip(lines[idx])
           nt == extract_number_and_text(line)
           number_str == nt[1]
           text == nt[2]
           level == determine_hierarchy_level(number_str)
           pricing == IF HasCurrencyMarker(text)
                      THEN parse_pricing_from_line(text) ELSE None
           item == [NewItem(number_str, text, level) EXCEPT
                       !.pricing = pricing,
                       !.description = IF HasCurrencyMarker(text)
                                       THEN remove_pricing(text) ELSE text]
           placed == Place(items, item_stack, prev_level, item)
       IN  IF Raised(pricing) \/ PlaceRaises(items, prev_level, level)
           THEN /\ pc' = "raised"
                /\ UNCHANGED <<items, current_item, item_stack, prev_level, idx>>
           ELSE /\ items' = placed[1]
                /\ current_item' = placed[2]
                /\ item_stack' = placed[3]
                /\ prev_level' = placed[4]
                /\ idx' = idx + 1
                /\ pc' = pc
    /\ UNCHANGED <<lines, result, fragment, pricing_out>>
    /\ UNCHANGED restVars

\* pricing None becomes {} and the list under key k is created when missing
WithList(item, k) ==
    LET pr == IF item.pricing = None THEN EmptyDict ELSE item.pricing
    IN  [item EXCEPT !.pricing = IF HasKey(pr, k) THEN pr ELSE SetKey(pr, k, <<>>)]

AppendToList(item, k, v) ==
    LET w == WithList(item, k)
    IN  [w EXCEPT !.pricing = SetKey(w.pricing, k, Append(w.pricing[k], v))]

\* Mutant of Continue: the "Plus:" marker is looked for before "Total Price"
Continue_plusFirst(item, line) ==
    IF Contains(line, <<Peso>>)
    THEN IF Contains(line, PlusMarker) \/ Contains(line, AdditionalMarker)
         THEN AppendToList(item, "additional", parse_pricing_from_line(line))
         ELSE IF Contains(line, TotalPrice)
              THEN SetKey(item, "total_price", line)
              ELSE AppendToList(item, "calculations", line)
    ELSE [item EXCEPT !.description = @ \o <<" ">> \o line]

\* lines 248-270: what a non-item line does to the item current_item refers to
Continue(item, line) ==
    IF Contains(line, <<Peso>>)
    THEN IF Contains(line, PlusMarker) \/ Contains(line, AdditionalMarker)
            \/ Contains(line, TotalPrice)
         THEN IF Contains(line, TotalPrice)
              THEN SetKey(item, "total_price", line)
              ELSE AppendToList(item, "additional", parse_pricing_from_line(line))
         ELSE AppendToList(item, "calculations", line)
    ELSE [item EXCEPT !.description = @ \o <<" ">> \o line]

ContinueRaises(line) ==
    /\ Contains(line, <<Peso>>)
    /\ Contains(line, PlusMarker) \/ Contains(line, AdditionalMarker)
    /\ ~Contains(line, TotalPrice)
    /\ Raised(parse_pricing_from_line(line))

\* lines 246-270
ContinuationLine ==
    /\ Looping
    /\ strip(lines[idx]) # <<>>
    /\ ~detect_item_line(strip(lines[idx]))
    /\ current_item # NoCurrent
    /\ LET line == strip(lines[idx])
           item == Continue(Deref(items, current_item), line)
       IN  IF ContinueRaises(line)
           THEN /\ pc' = "raised"
                /\ UNCHANGED <<items, current_item, idx>>
           ELSE /\ items' = IF current_item.kind = "attached"
                            THEN ReplaceAt(items, current_item.path, item)
                            ELSE items
                /\ current_item' = IF current_item.kind = "attached"
                                   THEN current_item ELSE Detached(item)
                /\ idx' = idx + 1
                /\ pc' = pc
    /\ UNCHANGED <<lines, prev_level, item_stack, result, fragment, pricing_out>>
    /\ UNCHANGED restVars

\* a non-item line before any item: neither branch of lines 205/246 is taken
PreambleLine ==
    /\ Looping
    /\ strip(lines[idx]) # <<>>
    /\ ~detect_item_line(strip(lines[idx]))
    /\ current_item = NoCurrent
    /\ idx' = idx + 1
    /\ UNCHANGED <<lines, items, current_item, prev_level, item_stack, pc,
                   result, fragment, pricing_out>>
    /\ UNCHANGED restVars

\* lines 272-282: the loop is over, clean_items(items), return items
Return ==
    /\ pc = "loop"
    /\ idx > Len(lines)
    /\ items' = clean_items(items)
    /\ pc' = "returned"
    /\ UNCHANGED <<lines, idx, current_item, prev_level, item_stack, result,
                   fragment, pricing_out>>
    /\ UNCHANGED restVars

\* extract_quotation_items, lines 300-340, on the returned tree
Summarize ==
    /\ pc = "returned"
    /\ result' = Summary(items)
    /\ pc' = "summarized"
    /\ UNCHANGED <<lines, idx, items, current_item, prev_level, item_stack,
                   fragment, pricing_out>>
    /\ UNCHANGED restVars

Next ==
    \/ BlankLine
    \/ ItemLine
    \/ ContinuationLine
    \/ PreambleLine
    \/ Return
    \/ Summarize

Spec == Init /\ [][Next]_vars

-----------------------------------------------------------------------------
(* SpecTree: the same loop and summary on sections of priced items of every
   depth, following "Plus:" lines and location keywords *)

TreeLineSet == {
    <<"1", ".", " ", "x">>,
    <<"2", ".", " ", "A", "r", "e", "a", "=", Peso, "7">>,
    <<"a", ".", " ", "R", "o", "o", "m", " ", Peso, "6">> \o UnitMarker
        \o <<" ", EnDash, " ", Peso, "9">>,
    <<"i", "i", ".", " ", "z", " ", EnDash, " ", Peso, "3">>,
    PlusMarker \o <<" ", "k", " ", EnDash, " ", Peso, "5">>,
    <<"F", "l", "o", "o", "r">>,
    <<>> }

InitTree ==
    /\ lines \in {ls \in UNION {[1..n -> TreeLineSet] : n \in 1..MaxLines} :
                     SectionLines(ls)}
    /\ idx = 1
    /\ items = <<>>
    /\ current_item = NoCurrent
    /\ prev_level = 0
    /\ item_stack = << <<>> >>
    /\ pc = "loop"
    /\ result = None
    /\ fragment = <<>>
    /\ pricing_out = Pending
    /\ RestIdle

SpecTree == InitTree /\ [][Next]_vars

-----------------------------------------------------------------------------
(* SpecNotes: the same loop and summary on sections whose items are followed
   by lines that carry the currency symbol *)

NoteLineSet == {
    <<"1", ".", " ", "x", " ", EnDash, " ", Peso, "8">>,
    <<"a", ".", " ", "y">>,
    <<"i", "i", ".", " ", "z">>,
    TotalPrice \o <<" ">> \o PlusMarker \o <<" ", Peso, "9">>,
    PlusMarker \o <<" ", "k", " ", EnDash, " ", Peso, "5">>,
    AdditionalMarker \o <<" ", Peso, "2">>,
    <<Peso, "3", " ", "k">>,
    <<"w">>,
    <<>> }

InitNotes ==
    /\ lines \in {ls \in UNION {[1..n -> NoteLineSet] : n \in 1..MaxLines} :
                     SectionLines(ls)}
    /\ idx = 1
    /\ items = <<>>
    /\ current_item = NoCurrent
    /\ prev_level = 0
    /\ item_stack = << <<>> >>
    /\ pc = "loop"
    /\ result = None
    /\ fragment = <<>>
    /\ pricing_out = Pending
    /\ RestIdle

SpecNotes == InitNotes /\ [][Next]_vars

-----------------------------------------------------------------------------
(* SpecSection: parse_item_section from its argument on, then the summary *)

JobToBeDone == <<"J", "o", "b", " ", "t", "o", " ", "b", "e", " ", "d", "o", "n", "e">>

\* r'Job to be done\s*:' under re.IGNORECASE anchored at i: the position
\* after the match, or 0
JobMatchAt(s, i) ==
    IF LitAtCI(s, i, JobToBeDone) /\ At(s, SkipWs(s, i + Len(JobToBeDone))) = ":"
    THEN SkipWs(s, i + Len(JobToBeDone)) + 1
    ELSE 0

\* job_match taken to match at the very start of any text
job_match_anywhere(s) == 1

\* re.search: job_match.end() of the leftmost match (1-based), or 0 for None
job_match(s) ==
    LET A == {i \in 1..Len(s) : JobMatchAt(s, i) # 0}
    IN  IF A = {} THEN 0 ELSE JobMatchAt(s, Min(A))

end_markers == <<
    <<"T", "e", "r", "m", "s", " ", "o", "f", " ", "P", "a", "y", "m", "e", "n", "t">>,
    <<"W", "a", "r", "r", "a", "n", "t", "y">>,
    <<"E", "x", "c", "e", "p", "t", "i", "o", "n">>,
    <<"T", "h", "a", "n", "k", " ", "y", "o", "u">>,
    <<"C", "o", "n", "f", "o", "r", "m", "e">> >>

\* str.find: the first position of w in s (1-based), or 0 for -1
find(s, w) ==
    LET A == {i \in 1..Len(s) : LitAt(s, i, w)}
    IN  IF A = {} THEN 0 ELSE Min(A)

\* end_pos stopping at the first marker of the list that occurs
RECURSIVE EndPosFrom_firstListed(_, _, _)
EndPosFrom_firstListed(job_section, k, end_pos) ==
    IF k > Len(end_markers) THEN end_pos
    ELSE LET pos == find(lower(job_section), lower(end_markers[k]))
         IN  IF pos # 0 THEN pos
             ELSE EndPosFrom_firstListed(job_section, k + 1, end_pos)

\* lines 184-187: end_pos after the markers from the k-th on
RECURSIVE EndPosFrom(_, _, _)
EndPosFrom(job_section, k, end_pos) ==
    IF k > Len(end_markers) THEN end_pos
    ELSE LET pos == find(lower(job_section), lower(end_markers[k]))
         IN  EndPosFrom(job_section, k + 1,
                        IF pos # 0 THEN Min({end_pos, pos}) ELSE end_pos)

\* str.split('\n')
RECURSIVE split(_)
split(s) ==
    LET nl == find(s, <<Newline>>)
    IN  IF nl = 0 THEN <<s>>
        ELSE <<SubSeq(s, 1, nl - 1)>> \o split(SubSeq(s, nl + 1, Len(s)))

\* lines 179-192, for a text with the start marker
job_lines(s) ==
    LET job_section == SubSeq(s, job_match(s), Len(s))
        end_pos == EndPosFrom(job_section, 1, Len(job_section) + 1)
    IN  split(strip(Slice(job_section, 1, end_pos)))

\* Bound: a text is built from at most MaxParts parts.
MaxParts == 4

Parts == <<
    JobToBeDone \o <<":">>,
    <<Newline, "J", "O", "B", " ", "T", "O", " ", "B", "E", " ", "D", "O", "N", "E", " ", ":">>,
    <<Newline, "1", ".", " ", "x">>,
    <<Newline, Newline, "a", ".", " ", "y">>,
    <<Newline>> \o end_markers[5],
    <<" ", "w", "a", "r", "r", "a", "n", "t", "y">> >>

Texts ==
    {Concat([i \in DOMAIN f |-> Parts[f[i]]]) :
        f \in UNION {[1..n -> DOMAIN Parts] : n \in 0..MaxParts}}

InitSection ==
    /\ extracted_text \in Texts
    /\ pc = "start"
    /\ lines = <<>>
    /\ idx = 1
    /\ items = <<>>
    /\ current_item = NoCurrent
    /\ prev_level = 0
    /\ item_stack = << <<>> >>
    /\ result = None
    /\ fragment = <<>>
    /\ pricing_out = Pending
    /\ line_in = <<>>
    /\ line_out = Pending
    /\ history = <<>>
    /\ request = Pending
    /\ response = Pending
    /\ ExtraIdle

\* lines 174-197: return [] without the start marker, else cut the section
\* out, split it and set up the loop
ExtractSection ==
    /\ pc = "start"
    /\ IF job_match(extracted_text) = 0
       THEN /\ items' = <<>>
            /\ pc' = "returned"
            /\ UNCHANGED <<lines, idx, current_item, prev_level, item_stack>>
       ELSE /\ lines' = job_lines(extracted_text)
            /\ idx' = 1
            /\ items' = <<>>
            /\ current_item' = NoCurrent
            /\ prev_level' = 0
            /\ item_stack' = << <<>> >>
            /\ pc' = "loop"
    /\ UNCHANGED <<result, fragment, pricing_out, restVars>>

NextSection ==
    \/ ExtractSection
    \/ Next

SpecSection == InitSection /\ [][NextSection]_vars

-----------------------------------------------------------------------------
(* SpecRepeat: parse_item_section called several times in one process *)

\* Bound: at most MaxCalls calls are made.
MaxCalls == 3

\* the job sections the calls are made on
RepeatSections == {
    << <<"1", ".", " ", "x">> >>,
    << <<"a", ".", " ", "y">> >>,
    << <<"a", ".", " ", "y">>, <<"i", "i", ".", " ", "z">> >>,
    << <<"w">>, <<"1", ".", " ", "x">>, <<>>, <<"a", ".", " ", "y">>, <<"w">> >>,
    << <<"b", ")", " ", "y", " ", EnDash, " ", Peso, ",">> >> }

InitRepeat ==
    /\ pc = "idle"
    /\ history = <<>>
    /\ lines = <<>>
    /\ idx = 1
    /\ items = <<>>
    /\ current_item = NoCurrent
    /\ prev_level = 0
    /\ item_stack = << <<>> >>
    /\ result = None
    /\ fragment = <<>>
    /\ pricing_out = Pending
    /\ line_in = <<>>
    /\ line_out = Pending
    /\ extracted_text = <<>>
    /\ request = Pending
    /\ response = Pending
    /\ ExtraIdle

\* a call that finds prev_level as the call before left it
StartCall_keepLevel(ls) ==
    /\ pc \in {"idle", "recorded"}
    /\ Len(history) < MaxCalls
    /\ lines' = ls
    /\ idx' = 1
    /\ items' = <<>>
    /\ current_item' = NoCurrent
    /\ item_stack' = << <<>> >>
    /\ pc' = "loop"
    /\ UNCHANGED <<prev_level, result, fragment, pricing_out, restVars>>

\* lines 192-197: a call starts with its own lines and fresh locals
StartCall(ls) ==
    /\ pc \in {"idle", "recorded"}
    /\ Len(history) < MaxCalls
    /\ lines' = ls
    /\ idx' = 1
    /\ items' = <<>>
    /\ current_item' = NoCurrent
    /\ prev_level' = 0
    /\ item_stack' = << <<>> >>
    /\ pc' = "loop"
    /\ UNCHANGED <<result, fragment, pricing_out, restVars>>

\* the caller keeps what the call returned (line 282), or that it raised
KeepResult ==
    /\ pc \in {"returned", "raised"}
    /\ history' = Append(history, [section |-> lines,
                                   raised |-> pc = "raised",
                                   tree |-> IF pc = "raised" THEN <<>> ELSE items])
    /\ pc' = "recorded"
    /\ UNCHANGED <<parserVars, line_in, line_out, extracted_text, request, response,
                   extraVars>>

NextRepeat ==
    \/ \E ls \in RepeatSections : StartCall(ls)
    \/ BlankLine
    \/ ItemLine
    \/ ContinuationLine
    \/ PreambleLine
    \/ Return
    \/ KeepResult

SpecRepeat == InitRepeat /\ [][NextRepeat]_vars

-----------------------------------------------------------------------------
(* SpecPricing: one call of parse_pricing_from_line *)

\* Bound: a fragment is built from at most MaxSegs segments.
MaxSegs == 5

Segs == <<
    PlusMarker,
    <<"p", "l", "u", "s", ":">>,
    <<" ", "x", " ">>,
    <<EnDash>>,
    <<" ", Peso, "1", ",", "6">>,
    <<" ", Peso, ",">>,
    UnitMarker >>

\* the fragments of the docstring (line 116) and some with "=" and "Additional:"
ExUnit == <<Peso, "6", "0", "0">> \o UnitMarker \o <<" ", EnDash, " ", Peso, "2", "9", ",", "4", "0", "0">>
ExLump == <<EnDash, " ", Peso, "8", ",", "5", "0", "0">>
ExPlus == PlusMarker \o <<" ">> \o Installation \o <<" ", EnDash, " ", Peso, "1", "9", ",", "5", "0", "0">>
ExAdditional == <<"x", " ">> \o AdditionalMarker \o <<" ", "y", " ", "=", Peso, " ", "0", "7">>
ExEquals == <<"x", "=", " ", Peso, "1", ",", "0", "0", "0", " ", "y">>
ExCurrencyOnly == <<"x", " ", Peso, "5">>
Examples == {ExUnit, ExLump, ExPlus, ExAdditional, ExEquals, ExCurrencyOnly}

Fragments ==
    Examples \cup
    {Concat([i \in DOMAIN f |-> Segs[f[i]]]) :
        f \in UNION {[1..n -> DOMAIN Segs] : n \in 0..MaxSegs}}


InitPricing ==
    /\ fragment \in Fragments
    /\ pricing_out = Pending
    /\ pc = "call"
    /\ lines = <<>>
    /\ idx = 1
    /\ items = <<>>
    /\ current_item = None
    /\ prev_level = 0
    /\ item_stack = <<>>
    /\ result = None
    /\ RestIdle

Classify ==
    /\ pc = "call"
    /\ pricing_out' = parse_pricing_from_line(fragment)
    /\ pc' = IF Raised(pricing_out') THEN "raised" ELSE "returned"
    /\ UNCHANGED <<lines, idx, items, current_item, prev_level, item_stack,
                   result, fragment>>
    /\ UNCHANGED restVars

NextPricing == Classify

SpecPricing == InitPricing /\ [][NextPricing]_vars

-----------------------------------------------------------------------------
(* SpecLine: one call of a line classifier *)

\* Bound: the argument has at most MaxLineLen characters.
MaxLineLen == 4

\* a digit, letters of both cases that are and are not roman characters, the
\* punctuation of the numbering grammars, and a space
LineChars == {"1", "a", "A", "i", "X", "(", ")", ".", " "}

LinesUpTo(n) == UNION {[1..k -> LineChars] : k \in 0..n}

InitLine ==
    /\ line_in \in LinesUpTo(MaxLineLen)
    /\ line_out = Pending
    /\ pc = "call"
    /\ lines = <<>>
    /\ idx = 1
    /\ items = <<>>
    /\ current_item = None
    /\ prev_level = 0
    /\ item_stack = <<>>
    /\ result = None
    /\ fragment = <<>>
    /\ pricing_out = Pending
    /\ extracted_text = <<>>
    /\ history = <<>>
    /\ request = Pending
    /\ response = Pending
    /\ ExtraIdle

\* detect_item_line(line) and extract_number_and_text(line) on the same line
ClassifyLine ==
    /\ pc = "call"
    /\ line_out' = [is_item |-> detect_item_line(line_in),
                    number_str |-> extract_number_and_text(line_in)[1],
                    remaining_text |-> extract_number_and_text(line_in)[2]]
    /\ pc' = "classified"
    /\ UNCHANGED <<parserVars, line_in, extracted_text, history, request, response,
                   extraVars>>

\* determine_hierarchy_level(number_str) with the argument as the label
ResolveLevel ==
    /\ pc = "call"
    /\ line_out' = [level |-> determine_hierarchy_level(line_in)]
    /\ pc' = "resolved"
    /\ UNCHANGED <<parserVars, line_in, extracted_text, history, request, response,
                   extraVars>>

NextLine ==
    \/ ClassifyLine
    \/ ResolveLevel

SpecLine == InitLine /\ [][NextLine]_vars

-----------------------------------------------------------------------------
(* SpecLabels: parse_item_section on a section of one line of any shape,
   alone or followed by a plain line *)

LabelSections ==
    {<<l>> : l \in LinesUpTo(MaxLineLen)}
    \cup {<<l, <<"w">> >> : l \in {<<"1", ".", "x">>, <<"(", "X", "i", ")">>, <<"X">>}}

InitLabels ==
    /\ lines \in {ls \in LabelSections : SectionLines(ls)}
    /\ idx = 1
    /\ items = <<>>
    /\ current_item = NoCurrent
    /\ prev_level = 0
    /\ item_stack = << <<>> >>
    /\ pc = "loop"
    /\ result = None
    /\ fragment = <<>>
    /\ pricing_out = Pending
    /\ RestIdle

SpecLabels == InitLabels /\ [][Next]_vars

-----------------------------------------------------------------------------
(* SpecDeep: the same loop and summary on longer sections of items of the
   three depths *)

\* Bound: the section has at most MaxDeepLines lines.
MaxDeepLines == 4

DeepLineSet == {
    <<"1", ".", " ", "x">>,
    <<"a", ".", " ", "y">>,
    <<"i", "i", ".", " ", "z">>,
    <<"w">>,
    <<>> }

InitDeep ==
    /\ lines \in {ls \in UNION {[1..n -> DeepLineSet] : n \in 1..MaxDeepLines} :
                     SectionLines(ls)}
    /\ idx = 1
    /\ items = <<>>
    /\ current_item = NoCurrent
    /\ prev_level = 0
    /\ item_stack = << <<>> >>
    /\ pc = "loop"
    /\ result = None
    /\ fragment = <<>>
    /\ pricing_out = Pending
    /\ RestIdle

SpecDeep == InitDeep /\ [][Next]_vars

-----------------------------------------------------------------------------
(* SpecService: one POST to an endpoint of src/service/main.py *)

\* the strings posted as `to` and as date_created: empty, blank, filled
Recipients == {"", " ", "ACME"}
Dates == {"", " ", "02/07/2026"}

\* the customer objects of the posted bodies: `to` and the optional fields
\* absent or present
Customers ==
    {EmptyDict}
    \cup {[to |-> t] : t \in Recipients}
    \cup {[attention |-> a] : a \in {"", "Mr. X"}}
    \cup {[to |-> t, attention |-> a] : t \in Recipients, a \in {"", "Mr. X"}}
    \cup {[to |-> t, greeting |-> "Dear Sir,"] : t \in Recipients}
    \cup {[greeting |-> "Dear Sir,"]}

Bodies ==
    {EmptyDict}
    \cup {[date_created |-> d] : d \in Dates}
    \cup {[customer |-> c] : c \in Customers}
    \cup {[date_created |-> d, customer |-> c] : d \in Dates, c \in Customers}

\* class CustomerModel: `to` has no default, the other fields have one
CustomerModelAccepts(c) == HasKey(c, "to")
CustomerModel(c) ==
    [to |-> c.to,
     attention |-> IF HasKey(c, "attention") THEN c.attention ELSE "",
     greeting |-> IF HasKey(c, "greeting") THEN c.greeting ELSE "Sir/Madam,",
     location_reference |-> ""]

\* class QuotationRequest: date_created and customer have no default
QuotationRequestAccepts(body) ==
    /\ HasKey(body, "date_created")
    /\ HasKey(body, "customer")
    /\ CustomerModelAccepts(body.customer)
QuotationRequest(body) ==
    [date_created |-> body.date_created,
     customer |-> CustomerModel(body.customer),
     items |-> <<>>]

HTTPException(status_code, detail) ==
    [exception |-> "HTTPException", status_code |-> status_code, detail |-> detail]

\* validate_quotation, lines 97-104: the exception raised, or quotation.dict()
validate_quotation(quotation) ==
    IF quotation.date_created = ""
    THEN HTTPException(400, "date_created is required")
    ELSE IF quotation.customer.to = ""
    THEN HTTPException(400, "customer.to is required")
    ELSE quotation

\* what the client receives
Response(status_code, media_type, content) ==
    [status_code |-> status_code, media_type |-> media_type, content |-> content]

\* format_quotation_html, taken as a black box that returns a page
format_quotation_html(quotation_dict) == [html_for |-> quotation_dict]

Paths == {"/format/html", "/format/pdf", "/format/docx", "/format/all"}

\* lines 18-40: the optional imports
Libraries == {"weasyprint", "reportlab", "python-docx"}
HAS_WEASYPRINT == "weasyprint" \in libraries
HAS_REPORTLAB == "reportlab" \in libraries
HAS_PYTHON_DOCX == "python-docx" \in libraries

Raises(v) == HasKey(v, "exception")

\* The three converters. `ok` is whether the library call succeeds; when it
\* does not, the converter's except clause raises HTTPException 500.
html_to_pdf_weasyprint(html_string, ok) ==
    IF ~HAS_WEASYPRINT THEN HTTPException(500, "weasyprint not installed")
    ELSE IF ~ok THEN HTTPException(500, "PDF generation failed")
    ELSE [made_by |-> "weasyprint", of |-> html_string]

html_to_pdf_reportlab(html_string, ok) ==
    IF ~HAS_REPORTLAB THEN HTTPException(500, "reportlab not installed")
    ELSE IF ~ok THEN HTTPException(500, "PDF generation failed")
    ELSE [made_by |-> "reportlab", of |-> html_string]

html_to_docx(html_string, ok) ==
    IF ~HAS_PYTHON_DOCX THEN HTTPException(500, "python-docx not installed")
    ELSE IF ~ok THEN HTTPException(500, "DOCX generation failed")
    ELSE [made_by |-> "python-docx", of |-> html_string]

\* the PDF branch preferring reportlab
pdf_bytes_reportlabFirst(html_output, ok) ==
    IF HAS_REPORTLAB THEN html_to_pdf_reportlab(html_output, ok)
    ELSE IF HAS_WEASYPRINT THEN html_to_pdf_weasyprint(html_output, ok)
    ELSE None

\* lines 233-236 and 300-307: weasyprint first, else reportlab, else nothing
\* is converted (None)
pdf_bytes(html_output, ok) ==
    IF HAS_WEASYPRINT THEN html_to_pdf_weasyprint(html_output, ok)
    ELSE IF HAS_REPORTLAB THEN html_to_pdf_reportlab(html_output, ok)
    ELSE None

\* an HTTPException leaves the endpoint (`except HTTPException: raise`) and
\* becomes the response with its status code
ErrorResponse(e) == Response(e.status_code, "application/json", [detail |-> e.detail])

\* FileResponse(io.BytesIO(...), media_type=...): the first argument is a
\* buffer where the framework reads a path, so whether the file is sent
\* (200) or sending fails (500) is left open
FileResponseStatus == {200, 500}

InitService ==
    /\ request \in {[path |-> p, body |-> b] : p \in Paths, b \in Bodies}
    /\ libraries \in SUBSET Libraries
    /\ response = Pending
    /\ pc = "received"
    /\ lines = <<>>
    /\ idx = 1
    /\ items = <<>>
    /\ current_item = NoCurrent
    /\ prev_level = 0
    /\ item_stack = << <<>> >>
    /\ result = None
    /\ fragment = <<>>
    /\ pricing_out = Pending
    /\ line_in = <<>>
    /\ line_out = Pending
    /\ extracted_text = <<>>
    /\ history = <<>>
    /\ amount = Pending
    /\ price_out = Pending
    /\ files_data = <<>>
    /\ file_pos = 1
    /\ item_structures = <<>>

\* The body does not fit the parameter type of the endpoint (lines 203, 221,
\* 257, 283: `quotation: QuotationRequest`): the framework answers 422
\* Unprocessable Entity and the endpoint function is not called.
RejectBody ==
    /\ pc = "received"
    /\ ~QuotationRequestAccepts(request.body)
    /\ response' = Response(422, "application/json", [detail |-> "validation error"])
    /\ pc' = "responded"
    /\ UNCHANGED <<parserVars, line_in, line_out, extracted_text, history, request,
                   extraVars>>

Accepted(path) ==
    /\ pc = "received"
    /\ request.path = path
    /\ QuotationRequestAccepts(request.body)

\* format_html, lines 202-217; an HTTPException is raised again (line 214)
\* and becomes the response with its status code
format_html ==
    /\ Accepted("/format/html")
    /\ LET quotation_dict == validate_quotation(QuotationRequest(request.body))
       IN  response' =
             IF HasKey(quotation_dict, "exception")
             THEN Response(quotation_dict.status_code, "application/json",
                           [detail |-> quotation_dict.detail])
             ELSE Response(200, "text/html", format_quotation_html(quotation_dict))
    /\ pc' = "responded"
    /\ UNCHANGED <<parserVars, line_in, line_out, extracted_text, history, request,
                   extraVars>>

\* format_pdf, lines 220-253
format_pdf ==
    /\ Accepted("/format/pdf")
    /\ \E ok \in BOOLEAN, sent \in FileResponseStatus :
         LET quotation_dict == validate_quotation(QuotationRequest(request.body))
             html_output == format_quotation_html(quotation_dict)
             pdf == pdf_bytes(html_output, ok)
         IN  response' =
               IF Raises(quotation_dict) THEN ErrorResponse(quotation_dict)
               ELSE IF pdf = None
               THEN ErrorResponse(HTTPException(500, "No PDF library available"))
               ELSE IF Raises(pdf) THEN ErrorResponse(pdf)
               ELSE Response(sent, "application/pdf", pdf)
    /\ pc' = "responded"
    /\ UNCHANGED <<parserVars, line_in, line_out, extracted_text, history, request,
                   extraVars>>

\* format_docx, lines 256-279
format_docx ==
    /\ Accepted("/format/docx")
    /\ \E ok \in BOOLEAN, sent \in FileResponseStatus :
         LET quotation_dict == validate_quotation(QuotationRequest(request.body))
             html_output == format_quotation_html(quotation_dict)
             docx_bytes == html_to_docx(html_output, ok)
         IN  response' =
               IF Raises(quotation_dict) THEN ErrorResponse(quotation_dict)
               ELSE IF Raises(docx_bytes) THEN ErrorResponse(docx_bytes)
               ELSE Response(sent, "application/vnd.openxmlformats-officedocument.wordprocessingml.document",
                             docx_bytes)
    /\ pc' = "responded"
    /\ UNCHANGED <<parserVars, line_in, line_out, extracted_text, history, request,
                   extraVars>>

\* format_all, lines 282-318: the result dictionary with the keys it got
format_all ==
    /\ Accepted("/format/all")
    /\ \E pdf_ok \in BOOLEAN, docx_ok \in BOOLEAN :
         LET quotation_dict == validate_quotation(QuotationRequest(request.body))
             html_output == format_quotation_html(quotation_dict)
             pdf == pdf_bytes(html_output, pdf_ok)
             docx_bytes == html_to_docx(html_output, docx_ok)
             with_html == [html |-> html_output]
             with_pdf == IF pdf = None THEN with_html
                         ELSE SetKey(with_html, "pdf_base64", pdf)
             with_docx == IF HAS_PYTHON_DOCX
                          THEN SetKey(with_pdf, "docx_base64", docx_bytes)
                          ELSE with_pdf
         IN  response' =
               IF Raises(quotation_dict) THEN ErrorResponse(quotation_dict)
               ELSE IF pdf # None /\ Raises(pdf) THEN ErrorResponse(pdf)
               ELSE IF HAS_PYTHON_DOCX /\ Raises(docx_bytes) THEN ErrorResponse(docx_bytes)
               ELSE Response(200, "application/json", with_docx)
    /\ pc' = "responded"
    /\ UNCHANGED <<parserVars, line_in, line_out, extracted_text, history, request,
                   extraVars>>

NextService ==
    \/ RejectBody
    \/ format_html
    \/ format_pdf
    \/ format_docx
    \/ format_all

SpecService == InitService /\ [][NextService]_vars

-----------------------------------------------------------------------------
(* SpecPrice: one call of format_price, src/service/format_rules.py *)

\* An amount is an int, [type |-> "int", digits], a float with centavos,
\* [type |-> "float", digits, cents], or a str, [type |-> "str", chars].
\* digits is the decimal numeral of the whole part, without leading zeros.

\* int(amount) printed: a numeral without leading zeros
RECURSIVE Numeral(_)
Numeral(ds) ==
    IF Len(ds) > 1 /\ Head(ds) = "0" THEN Numeral(Tail(ds)) ELSE ds

\* the format specification ",": a comma before every group of three digits
RECURSIVE Grouped(_)
Grouped(ds) ==
    IF Len(ds) <= 3 THEN ds
    ELSE Grouped(SubSeq(ds, 1, Len(ds) - 3)) \o <<",">>
         \o SubSeq(ds, Len(ds) - 2, Len(ds))

IsDigitRun(s) == \A i \in DOMAIN s : s[i] \in Digit

\* float(s) for a str of digits and points: the whole part and the centavos,
\* or ValueError
float(s) ==
    LET p    == find(s, <<".">>)
        whole == IF p = 0 THEN s ELSE SubSeq(s, 1, p - 1)
        frac  == IF p = 0 THEN <<>> ELSE SubSeq(s, p + 1, Len(s))
    IN  IF IsDigitRun(whole) /\ IsDigitRun(frac) /\ whole \o frac # <<>>
        THEN [digits |-> Numeral(IF whole = <<>> THEN <<"0">> ELSE whole),
              cents  |-> SubSeq(frac \o <<"0", "0">>, 1, 2)]
        ELSE ValueError

\* amount.replace(",", "").replace("₱", "").strip()
Unformatted(chars) == strip(SelectSeq(chars, LAMBDA c : c \notin {",", Peso}))

\* Mutant of format_price: the decimals are always written
format_price_alwaysDecimals(a) ==
    LET v == IF a.type = "str" THEN float(Unformatted(a.chars))
             ELSE IF a.type = "int" THEN [digits |-> a.digits, cents |-> <<"0", "0">>]
             ELSE [digits |-> a.digits, cents |-> a.cents]
    IN  IF Raised(v) THEN v
        ELSE [text |-> <<Peso, " ">> \o Grouped(v.digits) \o <<".">> \o v.cents]

format_price(a) ==
    LET v == IF a.type = "str" THEN float(Unformatted(a.chars))
             ELSE IF a.type = "int" THEN [digits |-> a.digits, cents |-> <<"0", "0">>]
             ELSE [digits |-> a.digits, cents |-> a.cents]
    IN  IF Raised(v) THEN v
        ELSE IF v.cents = <<"0", "0">>
             THEN [text |-> <<Peso, " ">> \o Grouped(v.digits)]
             ELSE [text |-> <<Peso, " ">> \o Grouped(v.digits) \o <<".">> \o v.cents]

\* Bound: a whole part has at most MaxDigits digits.
MaxDigits == 7

\* Bound: a str amount is made of at most MaxPieces pieces.
MaxPieces == 4

WholeDigits == {"0", "1", "8"}
Wholes == {Numeral(ds) : ds \in UNION {[1..k -> WholeDigits] : k \in 1..MaxDigits}}
Centavos == {<<"0", "0">>, <<"0", "5">>, <<"5", "0">>, <<"9", "9">>}

\* the amounts of the service's tests: 600, 8500, 1000, 10000.50, 1500.50
TestedAmounts ==
    { [type |-> "int", digits |-> <<"6", "0", "0">>],
      [type |-> "int", digits |-> <<"8", "5", "0", "0">>],
      [type |-> "int", digits |-> <<"1", "0", "0", "0">>],
      [type |-> "float", digits |-> <<"1", "0", "0", "0", "0">>, cents |-> <<"5", "0">>],
      [type |-> "float", digits |-> <<"1", "5", "0", "0">>, cents |-> <<"5", "0">>] }

Pieces == << <<Peso>>, <<" ">>, <<",">>, <<"1">>, <<"0", "0", "0">>, <<".", "5", "0">> >>
PieceTexts == {Concat([i \in DOMAIN f |-> Pieces[f[i]]]) :
                 f \in UNION {[1..n -> DOMAIN Pieces] : n \in 0..MaxPieces}}
\* prices are written to the centavo: at most two digits follow a point
ToTheCentavo(chars) ==
    LET t == Unformatted(chars)
        p == find(t, <<".">>)
    IN  p = 0 \/ Len(t) - p <= 2

Amounts ==
    TestedAmounts
    \cup {[type |-> "int", digits |-> w] : w \in Wholes}
    \cup {[type |-> "float", digits |-> w, cents |-> c] : w \in Wholes, c \in Centavos}
    \cup {[type |-> "str", chars |-> t] : t \in {u \in PieceTexts : ToTheCentavo(u)}}

InitPrice ==
    /\ amount \in Amounts
    /\ price_out = Pending
    /\ pc = "call"
    /\ lines = <<>>
    /\ idx = 1
    /\ items = <<>>
    /\ current_item = None
    /\ prev_level = 0
    /\ item_stack = <<>>
    /\ result = None
    /\ fragment = <<>>
    /\ pricing_out = Pending
    /\ line_in = <<>>
    /\ line_out = Pending
    /\ extracted_text = <<>>
    /\ history = <<>>
    /\ request = Pending
    /\ response = Pending
    /\ libraries = {}
    /\ files_data = <<>>
    /\ file_pos = 1
    /\ item_structures = <<>>

\* format_price(amount) returns a string
FormatPrice ==
    /\ pc = "call"
    /\ ~Raised(format_price(amount))
    /\ price_out' = format_price(amount)
    /\ pc' = "returned"
    /\ UNCHANGED <<parserVars, line_in, line_out, extracted_text, history, request,
                   response, libraries, amount, files_data, file_pos, item_structures>>

\* float() rejects the string: format_price raises ValueError
FormatPriceRaises ==
    /\ pc = "call"
    /\ Raised(format_price(amount))
    /\ price_out' = format_price(amount)
    /\ pc' = "raised"
    /\ UNCHANGED <<parserVars, line_in, line_out, extracted_text, history, request,
                   response, libraries, amount, files_data, file_pos, item_structures>>

NextPrice ==
    \/ FormatPrice
    \/ FormatPriceRaises

SpecPrice == InitPrice /\ [][NextPrice]_vars

-----------------------------------------------------------------------------
(* SpecBatch: analyze_files, src/scripts/analyze_quotation_formats.py, on the
   documents load_extracted_files returned *)

\* Bound: the batch has at most MaxFiles documents.
MaxFiles == 3

\* os.listdir gives every document its own name
FileNames == <<"a_extracted.json", "b_extracted.json", "c_extracted.json",
               "d_extracted.json", "e_extracted.json">>

\* load_extracted_files: one {'filename', 'data'} entry per loaded document;
\* a document is given by the lines of its job section
FileInfo(i, ls) == [filename |-> FileNames[i],
                    data |-> [filename |-> FileNames[i], job_lines |-> ls]]

Batches == {[i \in DOMAIN f |-> FileInfo(i, f[i])] :
              f \in UNION {[1..n -> RepeatSections] : n \in 0..MaxFiles}}

InitBatch ==
    /\ files_data \in Batches
    /\ file_pos = 1
    /\ item_structures = <<>>
    /\ pc = "batch"
    /\ history = <<>>
    /\ lines = <<>>
    /\ idx = 1
    /\ items = <<>>
    /\ current_item = NoCurrent
    /\ prev_level = 0
    /\ item_stack = << <<>> >>
    /\ result = None
    /\ fragment = <<>>
    /\ pricing_out = Pending
    /\ line_in = <<>>
    /\ line_out = Pending
    /\ extracted_text = <<>>
    /\ request = Pending
    /\ response = Pending
    /\ libraries = {}
    /\ amount = Pending
    /\ price_out = Pending

\* lines 42-44: nothing was loaded, analyze_files returns None
NoFiles ==
    /\ pc = "batch"
    /\ files_data = <<>>
    /\ pc' = "analyzed"
    /\ UNCHANGED <<parserVars, restVars>>

\* lines 62-90: the next document; extract_quotation_items(data) calls
\* parse_item_section, which starts with its own lines and fresh locals
NextFile ==
    /\ pc = "batch"
    /\ file_pos <= Len(files_data)
    /\ lines' = files_data[file_pos].data.job_lines
    /\ idx' = 1
    /\ items' = <<>>
    /\ current_item' = NoCurrent
    /\ prev_level' = 0
    /\ item_stack' = << <<>> >>
    /\ pc' = "loop"
    /\ UNCHANGED <<result, fragment, pricing_out, restVars>>

\* what the batch has seen of a document: its section, whether the parse
\* raised, and the tree if it did not
Seen == [section |-> lines,
         raised |-> pc = "raised",
         tree |-> IF pc = "raised" THEN <<>> ELSE items]

\* lines 90-91: item_structures.append(item_result)
AppendResult ==
    /\ pc = "summarized"
    /\ item_structures' = Append(item_structures,
                                 [filename |-> files_data[file_pos].data.filename,
                                  summary |-> result])
    /\ history' = Append(history, Seen)
    /\ file_pos' = file_pos + 1
    /\ pc' = "batch"
    /\ UNCHANGED <<parserVars, line_in, line_out, extracted_text, request, response,
                   libraries, amount, price_out, files_data>>

\* Mutant of WarnAndContinue: the exception leaves the loop
WarnAndContinue_stop ==
    /\ pc = "raised"
    /\ history' = Append(history, Seen)
    /\ file_pos' = file_pos + 1
    /\ pc' = "analyzed"
    /\ UNCHANGED <<parserVars, line_in, line_out, extracted_text, request, response,
                   libraries, amount, price_out, files_data, item_structures>>

\* lines 92-93: the exception is printed and the loop goes on
WarnAndContinue ==
    /\ pc = "raised"
    /\ history' = Append(history, Seen)
    /\ file_pos' = file_pos + 1
    /\ pc' = "batch"
    /\ UNCHANGED <<parserVars, line_in, line_out, extracted_text, request, response,
                   libraries, amount, price_out, files_data, item_structures>>

\* lines 95-128: the loop is over, item_structures goes to analyze_item_structures
Finish ==
    /\ pc = "batch"
    /\ files_data # <<>>
    /\ file_pos > Len(files_data)
    /\ pc' = "analyzed"
    /\ UNCHANGED <<parserVars, restVars>>

NextBatch ==
    \/ NoFiles
    \/ NextFile
    \/ BlankLine
    \/ ItemLine
    \/ ContinuationLine
    \/ PreambleLine
    \/ Return
    \/ Summarize
    \/ AppendResult
    \/ WarnAndContinue
    \/ Finish

SpecBatch == InitBatch /\ [][NextBatch]_vars

-----------------------------------------------------------------------------
(* Properties of parse_item_section (checked under Spec) *)

\* the item-start lines of the section, in order
ItemLineIndexes(ls) == {i \in DOMAIN ls : detect_item_line(ls[i])}
LevelOfLine(l) == determine_hierarchy_level(extract_number_and_text(l)[1])
LevelsOf(ls) ==
    LET sel == SelectSeq(ls, LAMBDA l : detect_item_line(l))
    IN  [i \in DOMAIN sel |-> LevelOfLine(sel[i])]

ChildrenOf(item) == IF HasKey(item, "children") THEN item.children ELSE <<>>

RECURSIVE NodeCount(_)
NodeCount(item_list) ==
    IF item_list = <<>> THEN 0
    ELSE 1 + NodeCount(ChildrenOf(Head(item_list))) + NodeCount(Tail(item_list))

\* every <<parent, child>> pair of the tree
RECURSIVE ParentChildPairs(_)
ParentChildPairs(item_list) ==
    UNION {{<<item_list[i], ChildrenOf(item_list[i])[j]>> :
               j \in DOMAIN ChildrenOf(item_list[i])}
           \cup ParentChildPairs(ChildrenOf(item_list[i]))
           : i \in DOMAIN item_list}

RECURSIVE NodesOf(_)
NodesOf(item_list) ==
    UNION {{item_list[i]} \cup NodesOf(ChildrenOf(item_list[i])) : i \in DOMAIN item_list}

Done == pc \in {"returned", "summarized"}

\* C1: every item-start line of the section yields exactly one node of the
\* returned tree, so the tree has as many nodes as the section has item-start
\* lines (a depth-3 line that finds no child to go under goes to the top level).
C1_OneNodePerItemLine ==
    Done => NodeCount(items) = Cardinality(ItemLineIndexes(lines))

\* C2: a depth-2 item is never the child of an item that is not depth 1.
C2_DepthTwoUnderDepthOne ==
    \A pcp \in ParentChildPairs(items) : pcp[2].level = 2 => pcp[1].level = 1

\* C3: parsing never raises, whatever a line holds.
C3_NeverRaises == pc # "raised"

\* first depth 1, and every deeper line follows a line at most one level higher
WellFormed(lv) ==
    lv # <<>> =>
        /\ lv[1] = 1
        /\ \A i \in 2..Len(lv) : lv[i] > 1 => lv[i - 1] >= lv[i] - 1

\* C4: for a well-formed section, every child of the returned tree is one
\* level below its parent, a depth-3 item is a grandchild of a depth-1 top-level
\* item under a depth-2 item, and a section with depths 1, 2, 3 has
\* hierarchy_depth 3.
C4_WellFormedTree ==
    (Done /\ WellFormed(LevelsOf(lines))) =>
        /\ \A pcp \in ParentChildPairs(items) : pcp[2].level = pcp[1].level + 1
        /\ \A i \in DOMAIN items : items[i].level = 1
        /\ \A i \in DOMAIN items : \A j \in DOMAIN ChildrenOf(items[i]) :
              /\ ChildrenOf(items[i])[j].level = 2
              /\ \A k \in DOMAIN ChildrenOf(ChildrenOf(items[i])[j]) :
                    /\ ChildrenOf(ChildrenOf(items[i])[j])[k].level = 3
                    /\ ~HasKey(ChildrenOf(ChildrenOf(items[i])[j])[k], "children")
        /\ NodeCount(items) = Len(LevelsOf(lines))
        /\ (pc = "summarized" /\ 3 \in Range(LevelsOf(lines)))
              => result.hierarchy_depth = 3

C4_Witness ==
    /\ pc = "summarized"
    /\ WellFormed(LevelsOf(lines))
    /\ LevelsOf(lines) = <<1, 2, 3>>
    /\ result.hierarchy_depth = 3

FirstItemLine(ls) == Min(ItemLineIndexes(ls))

\* C5: when the first item-start line has depth 2 or 3, handling it raises
\* nothing and it becomes the first top-level item with its own label and
\* level.
C5_FirstLineDepthTwoOrThree ==
    (ItemLineIndexes(lines) # {} /\ LevelOfLine(lines[FirstItemLine(lines)]) \in {2, 3}) =>
        LET f == FirstItemLine(lines)
        IN  /\ ~(pc = "raised" /\ idx = f)
            /\ idx > f =>
                  /\ items # <<>>
                  /\ items[1].number = extract_number_and_text(lines[f])[1]
                  /\ items[1].level = LevelOfLine(lines[f])

\* C6: in a returned tree no item, at any depth, carries an empty children
\* list: the key is absent or the list is non-empty.
C6_NoEmptyChildren ==
    Done => \A it \in NodesOf(items) : HasKey(it, "children") => it.children # <<>>

C6_Witness ==
    /\ pc = "returned"
    /\ \E it \in NodesOf(items) : HasKey(it, "children")
    /\ \E i \in DOMAIN items : HasKey(items[i], "children") /\
          \E j \in DOMAIN items[i].children : ~HasKey(items[i].children[j], "children")

\* the lines that are neither blank nor item starts, carry no currency marker
\* and come after some item-start line
PlainLineIndexes(ls) ==
    {i \in DOMAIN ls : /\ strip(ls[i]) # <<>>
                       /\ ~detect_item_line(strip(ls[i]))
                       /\ ~HasCurrencyMarker(strip(ls[i]))
                       /\ \E j \in ItemLineIndexes(ls) : j < i}

\* the item-start line that opened the item a line at i continues
OpenerOf(ls, i) ==
    CHOOSE j \in ItemLineIndexes(ls) :
        j < i /\ \A k \in ItemLineIndexes(ls) : k < i => k <= j

\* C24: the text of a non-item line without a currency marker that follows
\* an item-start line is found, after a single space, in the description of
\* the item of the returned tree that the nearest item-start line above it
\* opened.
C24_ContinuationInTree ==
    Done =>
        \A i \in PlainLineIndexes(lines) :
            \E it \in NodesOf(items) :
                /\ it.number = extract_number_and_text(strip(lines[OpenerOf(lines, i)]))[1]
                /\ Contains(it.description, <<" ">> \o strip(lines[i]))

\* the loop is at a non-item line that carries the currency symbol, with an
\* item open
AtCurrencyLine ==
    /\ Looping
    /\ strip(lines[idx]) # <<>>
    /\ ~detect_item_line(strip(lines[idx]))
    /\ current_item # NoCurrent
    /\ Contains(strip(lines[idx]), <<Peso>>)

PricingOf(item) == IF item.pricing = None THEN EmptyDict ELSE item.pricing
ListOf(pr, k) == IF HasKey(pr, k) THEN pr[k] ELSE <<>>

\* the dictionaries agree on every key but k
SameBut(d, e, k) ==
    /\ DOMAIN e = DOMAIN d \cup {k}
    /\ \A x \in DOMAIN d \ {k} : e[x] = d[x]

\* the pricing of the item after the step is its pricing before with v
\* appended to the list under k, and nothing else of the item changed
AppendedTo(before, after, k, v) ==
    /\ SameBut(before, after, "pricing")
    /\ after.pricing # None
    /\ SameBut(PricingOf(before), after.pricing, k)
    /\ after.pricing[k] = Append(ListOf(PricingOf(before), k), v)

\* C25: a non-item line with the currency symbol, met while an item is open,
\* does one thing to the current item: with "Total Price" in it the line is
\* stored as the item's total-price note, "Plus:" or not; else with "Plus:"
\* or "Additional:" an additive record of the line goes to the end of the
\* item's additional list; else the line goes to the end of its calculations
\* list. The description, the pricing fields stored before and every other
\* item stay as they were.
C25_CurrencyLineEffect ==
    [][(AtCurrencyLine /\ pc' = "loop") =>
         LET line   == strip(lines[idx])
             before == Deref(items, current_item)
             after  == Deref(items', current_item')
         IN  /\ idx' = idx + 1
             /\ current_item'.kind = current_item.kind
             /\ current_item'.path = current_item.path
             /\ items' = IF current_item.kind = "attached"
                         THEN ReplaceAt(items, current_item.path, after)
                         ELSE items
             /\ after.description = before.description
             /\ IF Contains(line, TotalPrice)
                THEN /\ SameBut(before, after, "total_price")
                     /\ after.total_price = line
                ELSE IF Contains(line, PlusMarker) \/ Contains(line, AdditionalMarker)
                THEN \E rec \in {after.pricing.additional[Len(after.pricing.additional)]} :
                        /\ rec.format = "additive"
                        /\ rec.raw = line
                        /\ AppendedTo(before, after, "additional", rec)
                ELSE AppendedTo(before, after, "calculations", line)
      ]_vars

\* an item priced on its own line has received a "Total Price" line that
\* also holds "Plus:", then a calculation line
C25_Witness ==
    /\ pc = "returned"
    /\ \E it \in NodesOf(items) :
          /\ HasKey(it, "total_price")
          /\ Contains(it.total_price, PlusMarker)
          /\ HasKey(it.pricing, "format")
          /\ it.pricing.format = "lump-sum"
          /\ ~HasKey(it.pricing, "additional")
          /\ HasKey(it.pricing, "calculations")
          /\ Len(it.pricing.calculations) = 1

\* the words of a text: its maximal runs without a space
RECURSIVE WordsFrom(_, _)
WordsFrom(s, i) ==
    LET j == SkipWs(s, i)
        k == IF j > Len(s) THEN j
             ELSE CHOOSE e \in j + 1..Len(s) + 1 :
                     /\ \A x \in j..e - 1 : ~IsSpace(s[x])
                     /\ e <= Len(s) => IsSpace(s[e])
    IN  IF j > Len(s) THEN <<>> ELSE <<Slice(s, j, k)>> \o WordsFrom(s, k)

\* the words of a remainder that are not pricing text: the separators stand
\* between words, and a word with the currency symbol is a price
NonPricingWords(text) ==
    LET spaced == [i \in DOMAIN text |-> IF text[i] \in Sep THEN " " ELSE text[i]]
    IN  SelectSeq(WordsFrom(spaced, 1), LAMBDA w : ~Contains(w, <<Peso>>))

\* the loop is at an item-start line
AtItemLine ==
    /\ Looping
    /\ strip(lines[idx]) # <<>>
    /\ detect_item_line(strip(lines[idx]))

\* C26: the item made from an item-start line whose remainder holds a dash,
\* an equals sign or the currency symbol stores the pricing record of the
\* whole remainder (raw is the remainder), and its description is made of
\* exactly the non-pricing words of the remainder, words after the amount
\* included, with no price left in it; with none of the three in the
\* remainder, pricing is null and the description is the remainder.
C26_DescriptionWithoutPricing ==
    [][(AtItemLine /\ pc' = "loop") =>
         LET text == extract_number_and_text(strip(lines[idx]))[2]
             new  == Deref(items', current_item')
         IN  IF HasCurrencyMarker(text)
             THEN /\ new.pricing = parse_pricing_from_line(text)
                  /\ new.pricing.raw = text
                  /\ ~Contains(new.description, <<Peso>>)
                  /\ WordsFrom(new.description, 1) = NonPricingWords(text)
             ELSE /\ new.pricing = None
                  /\ new.description = text
      ]_vars

\* the items created so far: those of the tree and the one current_item
\* refers to
Created ==
    NodesOf(items) \cup (IF current_item = NoCurrent THEN {}
                         ELSE {Deref(items, current_item)})

\* C27: every item parse_item_section creates has a non-empty number and a
\* level of 1, 2 or 3: level 0 and the empty label occur in no tree, and no
\* item of level 0 goes to the top level through the fallback.
C27_LabelAndLevel ==
    \A it \in Created : it.number # <<>> /\ it.level \in {1, 2, 3}

\* a parenthesised roman label of mixed case has made a depth-3 item
C27_Witness ==
    /\ pc = "returned"
    /\ lines = << <<"(", "X", "i", ")">> >>
    /\ Len(items) = 1
    /\ items[1].number = <<"X", "i">>
    /\ items[1].level = 3

-----------------------------------------------------------------------------
(* Properties of parse_pricing_from_line (checked under SpecPricing) *)

\* only whitespace strictly between positions a and b
SpacesBetween(s, a, b) == \A k \in (a + 1)..(b - 1) : IsSpace(s[k])

\* a "Plus:" or "Additional:" marker, in any letter case, anywhere
MarkerAnywhere(s) ==
    \E i \in DOMAIN s : LitAtCI(s, i, PlusMarker) \/ LitAtCI(s, i, AdditionalMarker)

\* at i: a separator, then the currency symbol, then a digit or comma
AmountAfterSepAt(s, i) ==
    /\ i \in DOMAIN s
    /\ s[i] \in Sep
    /\ \E j \in (i + 1)..Len(s) :
          /\ s[j] = Peso
          /\ SpacesBetween(s, i, j)
          /\ \E k \in (j + 1)..Len(s) : s[k] \in AmountChar /\ SpacesBetween(s, j, k)

AmountAfterSep(s) == \E i \in DOMAIN s : AmountAfterSepAt(s, i)

\* currency amount, "/unit", separator, currency amount
UnitShape(s) ==
    \E a \in DOMAIN s :
        /\ s[a] = Peso
        /\ \E b \in (a + 1)..Len(s) :
              /\ SpacesBetween(s, a, b)
              /\ s[b] \in AmountChar
              /\ \E c \in b..Len(s) :
                    /\ \A k \in b..c : s[k] \in AmountChar
                    /\ \E d \in (c + 1)..Len(s) :
                          /\ SpacesBetween(s, c, d)
                          /\ LitAt(s, d, UnitMarker)
                          /\ \E e \in (d + Len(UnitMarker))..Len(s) :
                                /\ SpacesBetween(s, d + Len(UnitMarker) - 1, e)
                                /\ AmountAfterSepAt(s, e)

Returned == pc = "returned"

\* C7: first match wins: a fragment with a marker anywhere is additive, also
\* when it has the unit-based or lump-sum shape; without a marker the
\* unit-based shape gives unit-based; without either, a separator followed by a
\* currency amount gives lump-sum.
C7_PricingPrecedence ==
    Returned =>
        /\ MarkerAnywhere(fragment) => pricing_out.format = "additive"
        /\ (~MarkerAnywhere(fragment) /\ UnitShape(fragment))
              => pricing_out.format = "unit-based"
        /\ (~MarkerAnywhere(fragment) /\ ~UnitShape(fragment) /\ AmountAfterSep(fragment))
              => pricing_out.format = "lump-sum"

C7_Witness ==
    /\ Returned
    /\ MarkerAnywhere(fragment)
    /\ UnitShape(fragment)
    /\ pricing_out.format = "additive"

RECURSIVE Pow10(_)
Pow10(n) == IF n = 0 THEN 1 ELSE 10 * Pow10(n - 1)
RECURSIVE SumDigits(_, _)
SumDigits(d, i) ==
    IF i > Len(d) THEN 0
    ELSE DigitVal(d[i]) * Pow10(Len(d) - i) + SumDigits(d, i + 1)
RunValue(run) == SumDigits(SelectSeq(run, LAMBDA c : c \in Digit), 1)

\* the digits and commas that follow the currency symbol at position i
RunAfterCurrency(s, i) ==
    Slice(s, SkipWs(s, i + 1), RunEnd(s, SkipWs(s, i + 1), AmountChar))

CurrencyPositions(s) == {i \in DOMAIN s : s[i] = Peso}

\* C9: a captured integer is the value of the digit run after a currency
\* symbol with the commas taken out (600 and 29400, 8500, 19500 for the three
\* fragments of the documentation), and raw is the fragment.
C9_CapturedIntegers ==
    Returned =>
        /\ pricing_out.raw = fragment
        /\ HasKey(pricing_out, "amount") =>
              \E i \in CurrencyPositions(fragment) :
                  pricing_out.amount = RunValue(RunAfterCurrency(fragment, i))
        /\ HasKey(pricing_out, "unit_price") =>
              \E i, j \in CurrencyPositions(fragment) :
                  /\ i < j
                  /\ pricing_out.unit_price = RunValue(RunAfterCurrency(fragment, i))
                  /\ pricing_out.total = RunValue(RunAfterCurrency(fragment, j))
        /\ fragment = ExUnit =>
              pricing_out = [format |-> "unit-based", raw |-> ExUnit,
                             unit_price |-> 600, total |-> 29400]
        /\ fragment = ExLump =>
              pricing_out = [format |-> "lump-sum", raw |-> ExLump, amount |-> 8500]
        /\ fragment = ExPlus =>
              /\ pricing_out.format = "additive"
              /\ pricing_out.amount = 19500

C9_Witness ==
    /\ Returned
    /\ fragment = ExUnit
    /\ pricing_out.unit_price = 600
    /\ pricing_out.total = 29400

\* the text between the first marker (any letter case) and the first
\* separator after it, trimmed; "Installation" when it is empty
MarkerEnds(s) ==
    {i + Len(PlusMarker) : i \in {k \in DOMAIN s : LitAtCI(s, k, PlusMarker)}}
    \cup {i + Len(AdditionalMarker) : i \in {k \in DOMAIN s : LitAtCI(s, k, AdditionalMarker)}}
SepAfter(s, e) == {q \in e..Len(s) : s[q] \in Sep}
TextAfterMarker(s) ==
    LET e == Min(MarkerEnds(s))
        t == strip(Slice(s, e, Min(SepAfter(s, e))))
    IN  IF t = <<>> THEN Installation ELSE t

\* C10: the label of an additive record with an amount is the text between
\* the marker and the separator, wherever the marker is and whatever its case.
C10_LabelIsTextAfterMarker ==
    (/\ Returned
     /\ pricing_out.format = "additive"
     /\ HasKey(pricing_out, "amount")
     /\ SepAfter(fragment, Min(MarkerEnds(fragment))) # {})
        => pricing_out.label = TextAfterMarker(fragment)

\* C30: parse_pricing_from_line never returns format "calculation": the
\* format of every returned record is null, "additive", "unit-based" or
\* "lump-sum", also for a fragment with an amount after a separator, on which
\* the lump-sum branch has returned before the calculation branch is reached.
C30_NeverCalculation ==
    Returned =>
        /\ pricing_out.format \in {"null", "additive", "unit-based", "lump-sum"}
        /\ pricing_out.format # "calculation"

\* a fragment with the shape the calculation branch tests for, and neither
\* marker nor unit price, has come back as lump-sum
C30_Witness ==
    /\ Returned
    /\ AmountAfterSep(fragment)
    /\ ~MarkerAnywhere(fragment)
    /\ ~UnitShape(fragment)
    /\ pricing_out.format = "lump-sum"

-----------------------------------------------------------------------------
(* Properties of the line classifiers (checked under SpecLine) *)

AllIn(s, C) == s # <<>> /\ \A i \in DOMAIN s : LowerChar(s[i]) \in C
AllDigits(s) == AllIn(s, Digit)
RomanRun(s) == Len(s) >= 2 /\ AllIn(s, Roman)
SingleLetter(s) == Len(s) = 1 /\ AllIn(s, Letter)

\* the level the four classes of labels stand for; the classes are disjoint
LevelIs(label, level) ==
    /\ AllDigits(label) => level = 1
    /\ RomanRun(label) => level = 3
    /\ SingleLetter(label) => level = 2
    /\ ~(AllDigits(label) \/ RomanRun(label) \/ SingleLetter(label)) => level = 0

RECURSIVE LStrip(_)
LStrip(s) == IF s # <<>> /\ IsSpace(Head(s)) THEN LStrip(Tail(s)) ELSE s

LabelShape(s) == AllDigits(s) \/ SingleLetter(s) \/ AllIn(s, Roman)

\* the ways t begins with a numbering grammar: <<label, text after the prefix>>
Splits(t) ==
    {<<SubSeq(t, 1, k), SubSeq(t, k + 2, Len(t))>> :
        k \in {k \in 1..(Len(t) - 1) :
                  LabelShape(SubSeq(t, 1, k)) /\ t[k + 1] \in {".", ")"}}}
    \cup
    {<<SubSeq(t, 2, k), SubSeq(t, k + 2, Len(t))>> :
        k \in {k \in 2..(Len(t) - 1) :
                  t[1] = "(" /\ LabelShape(SubSeq(t, 2, k)) /\ t[k + 1] = ")"}}

\* detect_item_line and extract_number_and_text on a line that begins with a
\* numbering grammar, and their agreement on every line
ClassifiedAsItem(out, t) ==
    /\ out.is_item <=> Splits(t) # {}
    /\ out.is_item <=> out.number_str # <<>>
    /\ Splits(t) # {} =>
          \E sp \in Splits(t) : /\ out.number_str = sp[1]
                                 /\ out.remaining_text = LStrip(sp[2])

\* C12 as stated: detect_item_line is true exactly when the trimmed line
\* begins with one of the six numbering grammars; extract_number_and_text
\* then returns the label as written and the text after the prefix and the
\* whitespace that follows it, and ("", line) on every other line.
C12_ClassifierAgreement ==
    pc = "classified" =>
        /\ ClassifiedAsItem(line_out, strip(line_in))
        /\ ~line_out.is_item => /\ line_out.number_str = <<>>
                                /\ line_out.remaining_text = line_in

\* C12 amended: on every other line the second component is the trimmed line.
C12_ClassifierAgreementTrimmed ==
    pc = "classified" =>
        /\ ClassifiedAsItem(line_out, strip(line_in))
        /\ ~line_out.is_item => /\ line_out.number_str = <<>>
                                /\ line_out.remaining_text = strip(line_in)

C12_Witness ==
    /\ pc = "classified"
    /\ line_in = <<"(", "X", "i", ")">>
    /\ line_out.is_item
    /\ line_out.number_str = <<"X", "i">>

-----------------------------------------------------------------------------
(* Properties of the section extraction (checked under SpecSection) *)

\* the occurrences of the start marker: <<first position, position of ":">>
StartMarkers(t) ==
    {se \in UNION {{s} \X ((s + Len(JobToBeDone))..Len(t)) :
                      s \in {s \in 1..Len(t) : LitAtCI(t, s, JobToBeDone)}} :
        /\ t[se[2]] = ":"
        /\ \A k \in (se[1] + Len(JobToBeDone))..(se[2] - 1) : t[k] \in {" ", Newline}}

\* the position just after the first start marker
SectionStart(t) ==
    LET S == StartMarkers(t)
    IN  (CHOOSE se \in S : \A o \in S : se[1] <= o[1])[2] + 1

\* the earliest position from `start` on where any end marker occurs, or
\* the position after the end of the text
SectionEnd(t, start) ==
    LET E == {p \in start..Len(t) :
                 \E k \in DOMAIN end_markers : LitAtCI(t, p, end_markers[k])}
    IN  IF E = {} THEN Len(t) + 1 ELSE Min(E)

\* the text between the first start marker and the earliest end marker
SectionBetweenMarkers(t) ==
    LET start == SectionStart(t)
    IN  SubSeq(t, start, SectionEnd(t, start) - 1)

RECURSIVE JoinLines(_)
JoinLines(ls) ==
    IF Len(ls) = 1 THEN ls[1]
    ELSE ls[1] \o <<Newline>> \o JoinLines(Tail(ls))

Extracted == pc \in {"loop", "raised", "returned", "summarized"}

EmptySummary ==
    [item_count |-> 0, hierarchy_depth |-> 0, has_location_grouping |-> FALSE,
     pricing_patterns |-> <<>>]

\* C14: without a "Job to be done" start marker in the text, the call does
\* not raise, returns the empty list, and the summary reports item_count 0,
\* hierarchy_depth 0, no pricing pattern and no location grouping, whatever
\* numbered lines the text has.
C14_NoStartMarkerEmpty ==
    ~ContainsCI(extracted_text, JobToBeDone) =>
        /\ pc \in {"start", "returned", "summarized"}
        /\ pc = "returned" => items = <<>>
        /\ pc = "summarized" => items = <<>> /\ result = EmptySummary

C14_Witness ==
    /\ pc = "summarized"
    /\ extracted_text = Concat(<<Parts[3], Parts[4]>>)
    /\ result = EmptySummary

-----------------------------------------------------------------------------
(* Properties of the summary (checked under SpecTree) *)

Summarized == pc = "summarized"

\* the place of a format name in string order
FormatRank(f) ==
    CASE f = "additive" -> 1
      [] f = "calculation" -> 2
      [] f = "lump-sum" -> 3
      [] f = "unit-based" -> 4
      [] OTHER -> 0

\* the formats of the pricing records the items of the tree carry
ItemFormats(item_list) ==
    {n.pricing.format :
        n \in {n \in NodesOf(item_list) :
                  /\ n.pricing # None
                  /\ "format" \in DOMAIN n.pricing
                  /\ n.pricing.format # "null"}}

\* C15: pricing_patterns is in string order without duplicates, has no null,
\* and holds exactly the formats of the pricing records of the items of the
\* tree, whatever their depth.
C15_PatternsOfEveryDepth ==
    Summarized =>
        LET pp == result.pricing_patterns
        IN  /\ \A i \in DOMAIN pp : FormatRank(pp[i]) # 0
            /\ \A i, j \in DOMAIN pp : i < j => FormatRank(pp[i]) < FormatRank(pp[j])
            /\ Range(pp) = ItemFormats(items)

\* a grandchild is the only item with a lump-sum price, a child the only one
\* with a unit-based price
C15_Witness ==
    /\ Summarized
    /\ result.pricing_patterns = <<"lump-sum", "unit-based">>
    /\ Len(items) = 1
    /\ items[1].pricing = None
    /\ items[1].children[1].pricing.format = "unit-based"
    /\ items[1].children[1].children[1].pricing.format = "lump-sum"

\* the formats of the records in the `additional` lists of the items
AdditionalFormats(item_list) ==
    UNION {{n.pricing.additional[k].format : k \in DOMAIN n.pricing.additional} :
              n \in {n \in NodesOf(item_list) :
                        n.pricing # None /\ "additional" \in DOMAIN n.pricing}}

\* C16: the formats of the pricing records in an item's `additional` list,
\* made from the "Plus:"/"Additional:" lines that follow the item, are in
\* pricing_patterns.
C16_AdditionalFormatsReported ==
    Summarized =>
        (AdditionalFormats(items) \ {"null"}) \subseteq Range(result.pricing_patterns)

\* the number of items on the longest chain from a top-level item down
RECURSIVE Height(_)
Height(item_list) ==
    IF item_list = <<>> THEN 0
    ELSE 1 + (LET H == {Height(ChildrenOf(item_list[i])) : i \in DOMAIN item_list}
              IN  CHOOSE h \in H : \A g \in H : h >= g)

\* C17: item_count is the number of top-level items; hierarchy_depth is the
\* nesting depth of the tree: 0 for the empty tree, 1 when no item has
\* children, otherwise 1 + the deepest chain of children, whatever the level
\* fields say.
C17_CountAndDepth ==
    Summarized =>
        /\ result.item_count = Len(items)
        /\ result.hierarchy_depth = Height(items)
        /\ items = <<>> => result.hierarchy_depth = 0
        /\ (items # <<>> /\ \A i \in DOMAIN items : ChildrenOf(items[i]) = <<>>)
              => result.hierarchy_depth = 1

\* a lone top-level item of level 2
C17_Witness ==
    /\ Summarized
    /\ Len(items) = 1
    /\ items[1].level = 2
    /\ result.item_count = 1
    /\ result.hierarchy_depth = 1

\* C18: has_location_grouping is true iff the description of some top-level
\* item, as it is in the returned tree, contains one of the six keywords
\* without regard to case; the descriptions of children do not count.
C18_LocationTopLevelOnly ==
    Summarized =>
        (result.has_location_grouping <=>
            \E i \in DOMAIN items : \E kw \in location_keywords :
                ContainsCI(items[i].description, kw))

\* the keyword is in a child's description only
C18_Witness ==
    /\ Summarized
    /\ ~result.has_location_grouping
    /\ Len(items) = 1
    /\ ChildrenOf(items[1]) # <<>>
    /\ ContainsCI(items[1].children[1].description, <<"r", "o", "o", "m">>)

-----------------------------------------------------------------------------
(* Properties of repeated calls (checked under SpecRepeat) *)

\* C19: the calls made on the same section, whatever calls on other sections
\* come before or between them, all return the same tree (or all raise), and
\* what a call returned stays as it was while later calls run.
C19_SameSectionSameTree ==
    \A i, j \in DOMAIN history :
        history[i].section = history[j].section => history[i] = history[j]

\* the same section parsed first and third, another one in between
C19_Witness ==
    /\ Len(history) = 3
    /\ history[1].section = history[3].section
    /\ history[2].section # history[1].section
    /\ history[2].tree # <<>>
    /\ history[3].tree # <<>>
    /\ history[3].tree = history[1].tree

-----------------------------------------------------------------------------
(* Properties of the formatting service (checked under SpecService) *)

Responded == pc = "responded"

\* the body of test_missing_required_field: a customer object without `to`
LacksTo(body) ==
    /\ HasKey(body, "date_created")
    /\ HasKey(body, "customer")
    /\ ~HasKey(body.customer, "to")

\* every required field is there, and `to` or date_created is empty
EmptyRequired(body) ==
    /\ HasKey(body, "date_created")
    /\ HasKey(body, "customer")
    /\ HasKey(body.customer, "to")
    /\ body.date_created = "" \/ body.customer.to = ""

\* C20: a POST to /format/html whose customer object lacks `to` is answered
\* with status 400 and no HTML, and so is one whose `to` or date_created is
\* present but empty.
C20_MissingOrEmptyIs400 ==
    (Responded /\ request.path = "/format/html"
       /\ (LacksTo(request.body) \/ EmptyRequired(request.body))) =>
        /\ response.status_code = 400
        /\ response.media_type # "text/html"

\* every required field is there and none is empty
PassesValidation(body) ==
    /\ HasKey(body, "date_created")
    /\ HasKey(body, "customer")
    /\ HasKey(body.customer, "to")
    /\ body.date_created # ""
    /\ body.customer.to # ""

\* the library that made the PDF of a response that carries one
PdfMakers(resp) ==
    IF resp.media_type = "application/pdf" THEN {resp.content.made_by}
    ELSE IF HasKey(resp.content, "pdf_base64") THEN {resp.content.pdf_base64.made_by}
    ELSE {}

NoPdfLibrary == "weasyprint" \notin libraries /\ "reportlab" \notin libraries

\* C21: a PDF is made by weasyprint whenever weasyprint is available and by
\* reportlab only when it is not; with neither, /format/pdf answers 500 while
\* /format/all answers 200 without pdf_base64 (and without docx_base64 when
\* python-docx is unavailable), unless the DOCX conversion itself fails; a
\* request that fails validation is answered 400 on every endpoint.
C21_PdfBackendPreference ==
    Responded =>
        /\ \A m \in PdfMakers(response) :
               m = (IF "weasyprint" \in libraries THEN "weasyprint" ELSE "reportlab")
        /\ "reportlab" \in PdfMakers(response) =>
               "weasyprint" \notin libraries /\ "reportlab" \in libraries
        /\ (PassesValidation(request.body) /\ NoPdfLibrary) =>
               /\ request.path = "/format/pdf" => response.status_code = 500
               /\ request.path = "/format/all" =>
                     /\ ~HasKey(response.content, "pdf_base64")
                     /\ \/ response.status_code = 200 /\ HasKey(response.content, "html")
                        \/ /\ "python-docx" \in libraries
                           /\ response.content = [detail |-> "DOCX generation failed"]
                     /\ "python-docx" \notin libraries =>
                           ~HasKey(response.content, "docx_base64")
        /\ EmptyRequired(request.body) => response.status_code = 400

C21_Witness ==
    /\ Responded
    /\ request.path = "/format/all"
    /\ libraries = {}
    /\ PassesValidation(request.body)
    /\ response.status_code = 200
    /\ DOMAIN response.content = {"html"}

-----------------------------------------------------------------------------
(* Properties of format_price (checked under SpecPrice) *)

PriceReturned == pc = "returned" /\ HasKey(price_out, "text")

\* the number an amount stands for: the numeral of its whole part and its
\* two centavo digits; of a str, read off its digits and its point
NumberChars(a) == SelectSeq(a.chars, LAMBDA c : c \in Digit \cup {"."})
WholeOf(a) ==
    IF a.type # "str" THEN a.digits
    ELSE LET t == NumberChars(a)
             p == find(t, <<".">>)
             w == IF p = 0 THEN t ELSE SubSeq(t, 1, p - 1)
         IN  Numeral(IF w = <<>> THEN <<"0">> ELSE w)
CentsOf(a) ==
    IF a.type = "int" THEN <<"0", "0">>
    ELSE IF a.type = "float" THEN a.cents
    ELSE LET t == NumberChars(a)
             p == find(t, <<".">>)
         IN  IF p = 0 THEN <<"0", "0">>
             ELSE SubSeq(SubSeq(t, p + 1, Len(t)) \o <<"0", "0">>, 1, 2)

\* commas stand exactly before every group of three digits, counted from
\* the right
ThousandsSeparated(w) ==
    \A i \in DOMAIN w : (w[i] = ",") <=> ((Len(w) - i + 1) % 4 = 0)

Rendering(chars) == [text |-> <<Peso, " ">> \o chars]

-----------------------------------------------------------------------------
(* Properties of the batch (checked under SpecBatch) *)

\* the names of the documents seen so far whose parse did not raise, in
\* input order
RECURSIVE ParsedNames(_)
ParsedNames(k) ==
    IF k = 0 THEN <<>>
    ELSE IF history[k].raised THEN ParsedNames(k - 1)
         ELSE Append(ParsedNames(k - 1), files_data[k].filename)

\* C23: a document whose parse raises does not stop the batch: when
\* analyze_files is through, every document has been parsed, and
\* item_structures holds exactly one entry, in input order, for each document
\* whose parse did not raise (the summary of that document's tree).
C23_BatchSurvivesFailures ==
    /\ Len(history) <= Len(files_data)
    /\ \A k \in DOMAIN history : history[k].section = files_data[k].data.job_lines
    /\ [i \in DOMAIN item_structures |-> item_structures[i].filename]
         = ParsedNames(Len(history))
    /\ \A i \in DOMAIN item_structures :
         \E k \in DOMAIN history :
            /\ files_data[k].filename = item_structures[i].filename
            /\ item_structures[i].summary = Summary(history[k].tree)
    /\ pc = "analyzed" => Len(history) = Len(files_data)

\* a batch of three whose second document failed is through
C23_Witness ==
    /\ pc = "analyzed"
    /\ Len(files_data) = 3
    /\ Len(history) = 3
    /\ ~history[1].raised /\ history[2].raised /\ ~history[3].raised
    /\ Len(item_structures) = 2
    /\ item_structures[2].filename = FileNames[3]

-----------------------------------------------------------------------------
(* Properties of the shape of the tree (checked under SpecDeep) *)

\* the items at the third nesting level
ThirdLevel(item_list) ==
    UNION {UNION {Range(ChildrenOf(ChildrenOf(item_list[i])[j]))
                  : j \in DOMAIN ChildrenOf(item_list[i])}
           : i \in DOMAIN item_list}

\* C28: after any sequence of lines the tree is at most three levels deep:
\* an item at the third nesting level has no children, and hierarchy_depth
\* is 0, 1, 2 or 3.
C28_AtMostThreeLevels ==
    /\ Height(items) <= 3
    /\ \A it \in ThirdLevel(items) : ChildrenOf(it) = <<>>
    /\ pc = "summarized" => result.hierarchy_depth \in {0, 1, 2, 3}

\* two depth-3 lines in a row have gone under the same depth-2 item
C28_Witness ==
    /\ pc = "summarized"
    /\ Len(lines) = 4
    /\ Len(items) = 1
    /\ Len(ChildrenOf(items[1])) = 1
    /\ Len(ChildrenOf(items[1].children[1])) = 2
    /\ result.hierarchy_depth = 3

\* the <<number, level>> of the items, parent before children, children
\* left to right
RECURSIVE PreOrder(_)
PreOrder(item_list) ==
    IF item_list = <<>> THEN <<>>
    ELSE <<<<Head(item_list).number, Head(item_list).level>>>>
         \o PreOrder(ChildrenOf(Head(item_list)))
         \o PreOrder(Tail(item_list))

\* C29: the pre-order traversal of the tree lists the items in the order of
\* their item-start lines: a step of the loop leaves the traversal as it is
\* or, at an item-start line, puts the item of that line at its end; no item
\* is put before an earlier one.
C29_PreOrderIsSourceOrder ==
    [][LET before == PreOrder(items)
           after  == PreOrder(items')
       IN  \/ after = before
           \/ /\ AtItemLine
              /\ after = Append(before,
                    <<extract_number_and_text(strip(lines[idx]))[1],
                      LevelOfLine(strip(lines[idx]))>>)
      ]_vars

\* a second depth-1 item has followed an item with a child and a grandchild
C29_Witness ==
    /\ pc = "returned"
    /\ PreOrder(items) = << <<<<"1">>, 1>>, <<<<"a">>, 2>>, <<<<"i", "i">>, 3>>, <<<<"1">>, 1>> >>
    /\ Len(items) = 2

====
